---- MODULE Spec2Model ----
(***************************************************************************)
(* A model of the authentication subsystem of llm-gateway: the auth        *)
(* Manager (static tokens, derived credentials, signature verification),   *)
(* the gRPC interceptors that decide every call before its handler, and    *)
(* the HTTP gateway that stamps the HTTP signing context on forwarded      *)
(* calls.                                                                  *)
(*                                                                         *)
(* Strings are sequences of atoms.  An atom stands for a fixed run of      *)
(* characters ("POST", "tokA"); the separators the code inserts or tests   *)
(* for ("\n", "?", "/", "-", the decimal digits) are atoms of their own,   *)
(* so concatenation, suffix tests and parsing work on the model as on the  *)
(* bytes.  The empty string is << >>.                                      *)
(*                                                                         *)
(* Time is counted in minutes: the clock `now`, Timestamp and expiresAt.   *)
(***************************************************************************)
EXTENDS Integers, Sequences, FiniteSets, TLC

VARIABLES
    config,                  \* the configuration the process was started with
    enabled,                 \* Manager.enabled
    serviceTokens,           \* Manager.serviceTokens: token -> ServiceToken
    tempTTL,                 \* Manager.tempTTL
    temps,                   \* Manager.temps: accessKeyID -> tempRecord
    usageCallbackAllowlist,  \* Manager.usageCallbackAllowlist: subject -> set(url)
    now,                     \* the wall clock read by time.Now()
    call,                    \* the call in flight: request, position, context
    probe,                   \* a pair of Signing Inputs, the signature of one, both verdicts
    deliveries,              \* the usage notifications dispatched so far
    mu,                      \* Manager.mu: the writer and the readers that hold it
    workers                  \* goroutines that call the Manager concurrently

vars == <<config, enabled, serviceTokens, tempTTL, temps, usageCallbackAllowlist, now, call, probe,
          deliveries, mu, workers>>

----------------------------------------------------------------------------
(* Bounds of the model *)

\* the clock runs from StartTime to StartTime + MaxTicks
MaxTicks == 4
\* at most this many derived credentials are issued in one behaviour
MaxIssued == 1

\* usage notifications dispatched in one behaviour
MaxDispatched == 1
\* reads of the stream's context by one stream handler
MaxObserved == 2

\* goroutines that issue credentials and goroutines that verify signatures
\* at the same time
NIssuers == 2
MVerifiers == 2

(* Program constants *)

\* manager.go:194  now.Add(-5*time.Minute) / now.Add(5*time.Minute)
SkewMinutes == 5
\* manager.go:62   tempTTL = 15 * time.Minute
DefaultTTLMinutes == 15

----------------------------------------------------------------------------
(* Strings *)

LF == "\n"

DigitAtoms == <<"0", "1", "2", "3", "4", "5", "6", "7", "8", "9">>

IsDigit(a) == \E i \in 1..10 : DigitAtoms[i] = a

DigitValue(a) == (CHOOSE i \in 1..10 : DigitAtoms[i] = a) - 1

RECURSIVE FormatNat(_)
FormatNat(n) ==
    IF n < 10 THEN <<DigitAtoms[n + 1]>>
    ELSE FormatNat(n \div 10) \o <<DigitAtoms[(n % 10) + 1]>>

\* fmt's %d of an int64
FormatInt(n) == IF n < 0 THEN <<"-">> \o FormatNat(-n) ELSE FormatNat(n)

\* strings.HasSuffix
HasSuffix(s, suffix) ==
    /\ Len(suffix) <= Len(s)
    /\ SubSeq(s, Len(s) - Len(suffix) + 1, Len(s)) = suffix

\* interceptors.go first(): the first value of a metadata key, "" when absent
first(v) == IF Len(v) = 0 THEN << >> ELSE v[1]

\* interceptors.go parseInt64(): an optional leading '-', then digits; any
\* other rune makes the result 0
RECURSIVE parseLoop(_, _, _, _)
parseLoop(s, i, n, sign) ==
    IF i > Len(s) THEN n * sign
    ELSE IF i = 1 /\ s[i] = "-" THEN parseLoop(s, i + 1, n, -1)
    ELSE IF ~IsDigit(s[i]) THEN 0
    ELSE parseLoop(s, i + 1, n * 10 + DigitValue(s[i]), sign)

parseInt64(s) == parseLoop(s, 1, 0, 1)

----------------------------------------------------------------------------
(* auth.Manager: pure parts *)

NoSubject == << >>

\* manager.go:89  the subject of a token configured without a name
DefaultSubject == <<"service">>

\* a loop that keeps the entries whose token is empty
buildServiceTokens_keepEmpty(list) ==
    LET toks == {list[i].Token : i \in DOMAIN list}
        last(t) == CHOOSE i \in DOMAIN list :
                       /\ list[i].Token = t
                       /\ \A j \in DOMAIN list : list[j].Token = t => j <= i
    IN  [t \in toks |-> list[last(t)]]

\* NewManager's loop: entries with an empty token are skipped, a later entry
\* with the same token replaces an earlier one
buildServiceTokens(list) ==
    LET toks == {list[i].Token : i \in DOMAIN list} \ {<< >>}
        last(t) == CHOOSE i \in DOMAIN list :
                       /\ list[i].Token = t
                       /\ \A j \in DOMAIN list : list[j].Token = t => j <= i
    IN  [t \in toks |-> list[last(t)]]

\* a manager that keeps the configured TTL whatever it is
effectiveTTL_asConfigured(ttl) == ttl

\* NewManager: tempTTL <= 0 becomes the default
effectiveTTL(ttl) == IF ttl <= 0 THEN DefaultTTLMinutes ELSE ttl

NewManager(list, ttl) ==
    LET st == buildServiceTokens(list)
    IN  [enabled                |-> DOMAIN st # {},
         serviceTokens          |-> st,
         tempTTL                |-> effectiveTTL(ttl),
         temps                  |-> << >>,
         usageCallbackAllowlist |-> << >>]

Fail == [subject |-> NoSubject, ok |-> FALSE]

\* a lookup that forgets the default subject of an unnamed token
AuthenticateServiceToken_noDefault(en, st, token) ==
    IF ~en THEN [subject |-> NoSubject, ok |-> TRUE]
    ELSE IF token = << >> THEN Fail
    ELSE IF token \notin DOMAIN st THEN Fail
    ELSE [subject |-> st[token].Name, ok |-> TRUE]

\* Manager.AuthenticateServiceToken
AuthenticateServiceToken(en, st, token) ==
    IF ~en THEN [subject |-> NoSubject, ok |-> TRUE]
    ELSE IF token = << >> THEN Fail
    ELSE IF token \notin DOMAIN st THEN Fail
    ELSE IF st[token].Name # << >> THEN [subject |-> st[token].Name, ok |-> TRUE]
    ELSE [subject |-> DefaultSubject, ok |-> TRUE]

(* HMAC-SHA256 and hex.  A MAC is modelled as the pair <<secret, message>>:   *)
(* equal MACs mean equal secret and equal message.  A hex string is a         *)
(* sequence of blocks, each standing for the hex digits of one run of bytes,  *)
(* written in lower case (what EncodeToString produces), in upper case, or    *)
(* holding a character that is no hex digit.                                  *)

hexEncodeToString(bytes) == <<[bytes |-> bytes, form |-> "lower"]>>

\* hex.DecodeString: digits of either case decode to the same bytes
hexDecodeString(s) ==
    IF \A i \in DOMAIN s : s[i].form \in {"lower", "upper"}
    THEN [err |-> FALSE, bytes |-> [i \in DOMAIN s |-> s[i].bytes]]
    ELSE [err |-> TRUE, bytes |-> << >>]

hmacSHA256(secret, msg) == <<secret, msg>>

hmacSHA256Hex(secret, msg) == hexEncodeToString(hmacSHA256(secret, msg))

\* hmac.Equal
hmacEqual(a, b) == a = b

\* a canonical string without the callback URL
canonicalString_noCallback(in) ==
    IF in.HTTPMethod # << >> /\ in.HTTPPath # << >>
    THEN LET resource == IF in.HTTPQuery # << >>
                         THEN in.HTTPPath \o <<"?">> \o in.HTTPQuery
                         ELSE in.HTTPPath
         IN  FormatInt(in.Timestamp) \o <<LF>> \o in.Nonce \o <<LF>>
                 \o in.HTTPMethod \o <<LF>> \o resource \o <<LF>>
                 \o in.BodySHA256
    ELSE FormatInt(in.Timestamp) \o <<LF>> \o in.Nonce \o <<LF>>
             \o <<"GRPC">> \o <<LF>> \o in.GRPCFullMethod

\* the branch canonicalString takes for a Signing Input
canonicalBranch(in) ==
    IF in.HTTPMethod # << >> /\ in.HTTPPath # << >> THEN "http" ELSE "grpc"

\* a canonical string whose resource always carries the "?"
canonicalString_queryAlways(in) ==
    IF in.HTTPMethod # << >> /\ in.HTTPPath # << >>
    THEN FormatInt(in.Timestamp) \o <<LF>> \o in.Nonce \o <<LF>>
             \o in.HTTPMethod \o <<LF>> \o in.HTTPPath \o <<"?">> \o in.HTTPQuery \o <<LF>>
             \o in.BodySHA256 \o <<LF>> \o in.CallbackURL
    ELSE FormatInt(in.Timestamp) \o <<LF>> \o in.Nonce \o <<LF>>
             \o <<"GRPC">> \o <<LF>> \o in.GRPCFullMethod \o <<LF>> \o in.CallbackURL

\* canonicalString
canonicalString(in) ==
    IF in.HTTPMethod # << >> /\ in.HTTPPath # << >>
    THEN LET resource == IF in.HTTPQuery # << >>
                         THEN in.HTTPPath \o <<"?">> \o in.HTTPQuery
                         ELSE in.HTTPPath
         IN  FormatInt(in.Timestamp) \o <<LF>> \o in.Nonce \o <<LF>>
                 \o in.HTTPMethod \o <<LF>> \o resource \o <<LF>>
                 \o in.BodySHA256 \o <<LF>> \o in.CallbackURL
    ELSE FormatInt(in.Timestamp) \o <<LF>> \o in.Nonce \o <<LF>>
             \o <<"GRPC">> \o <<LF>> \o in.GRPCFullMethod \o <<LF>> \o in.CallbackURL

\* a window that excludes its two edges
outsideSkew_edgesOut(ts, t) == ts <= t - SkewMinutes \/ ts >= t + SkewMinutes

\* the clock-skew test of AuthenticateSignature
outsideSkew(ts, t) == ts < t - SkewMinutes \/ ts > t + SkewMinutes

\* an expiry test that already fails at the instant of expiry
expired_atExpiry(rec, t) == t >= rec.expiresAt

\* the expiry test of AuthenticateSignature: now.After(rec.expiresAt)
expired(rec, t) == t > rec.expiresAt

\* a comparison of the hex strings themselves
signatureMatches_stringEqual(expected, signature) == expected = signature

\* the comparison of AuthenticateSignature: both hex strings are decoded and
\* the bytes compared
signatureMatches(expected, signature) ==
    LET a == hexDecodeString(expected)
        b == hexDecodeString(signature)
    IN  /\ ~a.err
        /\ ~b.err
        /\ hmacEqual(a.bytes, b.bytes)

\* a verification that accepts a signature only at the time of its timestamp
AuthenticateSignature_noReplayWindow(en, tmps, in, t) ==
    IF ~en THEN [subject |-> << >>, ok |-> TRUE]
    ELSE IF in.AccessKeyID \in DOMAIN tmps
            /\ in.Signature # << >> /\ in.Nonce # << >>
            /\ in.Timestamp = t
            /\ ~expired(tmps[in.AccessKeyID], t)
            /\ signatureMatches(hmacSHA256Hex(tmps[in.AccessKeyID].secret,
                                              canonicalString(in)), in.Signature)
    THEN [subject |-> tmps[in.AccessKeyID].subject, ok |-> TRUE]
    ELSE [subject |-> << >>, ok |-> FALSE]

\* a verification without the test of the required fields
AuthenticateSignature_noFieldTest(en, tmps, in, t) ==
    IF ~en THEN [subject |-> NoSubject, ok |-> TRUE]
    ELSE IF outsideSkew(in.Timestamp, t) THEN Fail
    ELSE IF in.AccessKeyID \notin DOMAIN tmps THEN Fail
    ELSE LET rec == tmps[in.AccessKeyID]
         IN  IF expired(rec, t) THEN Fail
             ELSE IF ~signatureMatches(hmacSHA256Hex(rec.secret, canonicalString(in)),
                                       in.Signature) THEN Fail
             ELSE [subject |-> rec.subject, ok |-> TRUE]

\* Manager.AuthenticateSignature
AuthenticateSignature(en, tmps, in, t) ==
    IF ~en THEN [subject |-> NoSubject, ok |-> TRUE]
    ELSE IF \/ in.AccessKeyID = << >>
            \/ in.Signature = << >>
            \/ in.Timestamp = 0
            \/ in.Nonce = << >> THEN Fail
    ELSE IF outsideSkew(in.Timestamp, t) THEN Fail
    ELSE IF in.AccessKeyID \notin DOMAIN tmps THEN Fail
    ELSE LET rec == tmps[in.AccessKeyID]
         IN  IF expired(rec, t) THEN Fail
             ELSE IF ~signatureMatches(hmacSHA256Hex(rec.secret, canonicalString(in)),
                                       in.Signature) THEN Fail
             ELSE [subject |-> rec.subject, ok |-> TRUE]


----------------------------------------------------------------------------
(* auth interceptors: pure parts *)

mdServiceToken == "x-service-token"
mdAccessKeyID  == "x-access-key-id"
mdSignature    == "x-signature"
mdTimestamp    == "x-timestamp"
mdNonce        == "x-nonce"
mdCallbackURL  == "x-usage-callback"
mdHTTPMethod   == "x-llmgw-http-method"
mdHTTPPath     == "x-llmgw-http-path"
mdHTTPQuery    == "x-llmgw-http-query"
mdBodySHA256   == "x-llmgw-body-sha256"

HTTPContextKeys == {mdHTTPMethod, mdHTTPPath, mdHTTPQuery, mdBodySHA256}

MDKeys == {mdServiceToken, mdAccessKeyID, mdSignature, mdTimestamp, mdNonce,
           mdCallbackURL} \cup HTTPContextKeys

\* metadata with no key set: md.Get returns no value for every key
EmptyMD == [k \in MDKeys |-> << >>]

MethodNone         == ""
MethodServiceToken == "service_token"
MethodSignature    == "signature"

OK              == "OK"
Unauthenticated == "Unauthenticated"

ServiceName == "llmgateway.v1.LLMGatewayService"

FullMethod(name) == <<"/", ServiceName, "/", name>>

IssueTemporaryCredentialsMethod  == FullMethod("IssueTemporaryCredentials")
CreateChatCompletionMethod       == FullMethod("CreateChatCompletion")
CreateChatCompletionStreamMethod == FullMethod("CreateChatCompletionStream")
SetUsageCallbackMethod           == FullMethod("SetUsageCallback")
GetUsageCallbackMethod           == FullMethod("GetUsageCallback")
CreateEmbeddingsMethod           == FullMethod("CreateEmbeddings")
GetModelMethod                   == FullMethod("GetModel")

UnaryMethods  == {IssueTemporaryCredentialsMethod, CreateChatCompletionMethod,
                  SetUsageCallbackMethod, GetUsageCallbackMethod, CreateEmbeddingsMethod}
StreamMethods == {CreateChatCompletionStreamMethod}

\* the SignatureInput authenticate() assembles from the metadata
signatureInput(md, fullMethod) ==
    [AccessKeyID    |-> first(md[mdAccessKeyID]),
     Signature      |-> first(md[mdSignature]),
     Timestamp      |-> parseInt64(first(md[mdTimestamp])),
     Nonce          |-> first(md[mdNonce]),
     CallbackURL    |-> first(md[mdCallbackURL]),
     HTTPMethod     |-> first(md[mdHTTPMethod]),
     HTTPPath       |-> first(md[mdHTTPPath]),
     HTTPQuery      |-> first(md[mdHTTPQuery]),
     BodySHA256     |-> first(md[mdBodySHA256]),
     GRPCFullMethod |-> fullMethod]

Reject == [subject |-> NoSubject, method |-> MethodNone, err |-> Unauthenticated]

\* a protocol in which a call whose static token is refused is still tried
\* on the signature path
authenticate_fallThrough(en, st, tmps, md, fullMethod, t) ==
    LET tok == first(md[mdServiceToken])
        sig == AuthenticateSignature(en, tmps, signatureInput(md, fullMethod), t)
        bySignature ==
            IF HasSuffix(fullMethod, <<"/", "IssueTemporaryCredentials">>) THEN Reject
            ELSE IF sig.ok
            THEN [subject |-> sig.subject, method |-> MethodSignature, err |-> OK]
            ELSE Reject
    IN  IF tok # << >> /\ AuthenticateServiceToken(en, st, tok).ok
        THEN [subject |-> AuthenticateServiceToken(en, st, tok).subject,
              method |-> MethodServiceToken, err |-> OK]
        ELSE bySignature

\* a protocol without the static-token requirement of issuance
authenticate_noIssuanceGate(en, st, tmps, md, fullMethod, t) ==
    LET tok == first(md[mdServiceToken])
    IN  IF tok # << >>
        THEN LET r == AuthenticateServiceToken(en, st, tok)
             IN  IF r.ok
                 THEN [subject |-> r.subject, method |-> MethodServiceToken, err |-> OK]
                 ELSE Reject
        ELSE LET r == AuthenticateSignature(en, tmps, signatureInput(md, fullMethod), t)
             IN  IF r.ok
                 THEN [subject |-> r.subject, method |-> MethodSignature, err |-> OK]
                 ELSE Reject

\* authenticate(): the decision protocol of one call
authenticate(en, st, tmps, md, fullMethod, t) ==
    LET tok == first(md[mdServiceToken])
    IN  IF tok # << >>
        THEN LET r == AuthenticateServiceToken(en, st, tok)
             IN  IF r.ok
                 THEN [subject |-> r.subject, method |-> MethodServiceToken, err |-> OK]
                 ELSE Reject
        ELSE IF HasSuffix(fullMethod, <<"/", "IssueTemporaryCredentials">>)
        THEN Reject
        ELSE LET r == AuthenticateSignature(en, tmps, signatureInput(md, fullMethod), t)
             IN  IF r.ok
                 THEN [subject |-> r.subject, method |-> MethodSignature, err |-> OK]
                 ELSE Reject

\* the context of a call: what SubjectFromContext and MethodFromContext read
EmptyCtx == [subject |-> NoSubject, method |-> MethodNone]

WithSubject(ctx, subject) ==
    IF subject = << >> THEN ctx ELSE [ctx EXCEPT !.subject = subject]

WithMethod(ctx, m) ==
    IF m = MethodNone THEN ctx ELSE [ctx EXCEPT !.method = m]

SubjectFromContext(ctx) == ctx.subject

MethodFromContext(ctx) == ctx.method

\* no authenticate() result: the call is not decided yet, or auth is disabled
\* and authenticate() is not called
NoDecision == [subject |-> NoSubject, method |-> MethodNone, err |-> ""]

\* an interceptor that invokes the handler whatever authenticate() returned
intercept_ignoreError(en, st, tmps, md, fullMethod, t) ==
    IF ~en THEN [auth |-> NoDecision, proceed |-> TRUE, ctx |-> EmptyCtx]
    ELSE LET a == authenticate(en, st, tmps, md, fullMethod, t)
         IN  [auth |-> a, proceed |-> TRUE,
              ctx |-> WithMethod(WithSubject(EmptyCtx, a.subject), a.method)]

\* an interceptor that calls authenticate() whether or not auth is enabled
intercept_alwaysAuthenticate(en, st, tmps, md, fullMethod, t) ==
    LET a == authenticate(en, st, tmps, md, fullMethod, t)
    IN  IF a.err # OK
        THEN [auth |-> a, proceed |-> FALSE, ctx |-> EmptyCtx]
        ELSE [auth |-> a, proceed |-> TRUE,
              ctx |-> WithMethod(WithSubject(EmptyCtx, a.subject), a.method)]

\* what either interceptor does with a call before its handler: the decision,
\* whether the handler is invoked, and the context the handler is given
intercept(en, st, tmps, md, fullMethod, t) ==
    IF ~en THEN [auth |-> NoDecision, proceed |-> TRUE, ctx |-> EmptyCtx]
    ELSE LET a == authenticate(en, st, tmps, md, fullMethod, t)
         IN  IF a.err # OK
             THEN [auth |-> a, proceed |-> FALSE, ctx |-> EmptyCtx]
             ELSE [auth |-> a, proceed |-> TRUE,
                   ctx |-> WithMethod(WithSubject(EmptyCtx, a.subject), a.method)]

\* a stream interceptor that hands the handler the stream it was given
interceptStream_noWrap(en, st, tmps, md, fullMethod, t) ==
    IF ~en THEN [auth |-> NoDecision, proceed |-> TRUE, ctx |-> EmptyCtx]
    ELSE LET a == authenticate(en, st, tmps, md, fullMethod, t)
         IN  [auth |-> a, proceed |-> a.err = OK, ctx |-> EmptyCtx]

\* StreamServerInterceptor: the decision, whether the handler is invoked, and
\* the context of the serverStreamWithContext the handler is given
interceptStream(en, st, tmps, md, fullMethod, t) ==
    IF ~en THEN [auth |-> NoDecision, proceed |-> TRUE, ctx |-> EmptyCtx]
    ELSE LET a == authenticate(en, st, tmps, md, fullMethod, t)
         IN  IF a.err # OK
             THEN [auth |-> a, proceed |-> FALSE, ctx |-> EmptyCtx]
             ELSE [auth |-> a, proceed |-> TRUE,
                   ctx |-> WithMethod(WithSubject(EmptyCtx, a.subject), a.method)]

\* serverStreamWithContext.Context
Context(ss) == ss.ctx

----------------------------------------------------------------------------
(* HTTP gateway: pure parts *)

\* server.go: const maxBody = 10 << 20
maxBody == 10485760

\* a request body: its bytes (named by id), its length, and whether reading it
\* fails before the end
EmptyBody == [id |-> "empty", len |-> 0, readErr |-> FALSE]

\* hex(sha256(body)): distinct bodies have distinct digests
sha256Hex(body) == <<"sha256", body.id>>

\* http.Header.Set: replaces every value of the key
headerSet(h, k, v) == [h EXCEPT ![k] = <<v>>]

\* http.Header.Get
headerGet(h, k) == first(h[k])

\* the routes of the generated gateway
route(method, path) ==
    IF method = <<"POST">> /\ path = <<"/", "v1", "/", "chat", "/", "completions">>
    THEN CreateChatCompletionMethod
    ELSE IF method = <<"POST">>
            /\ path = <<"/", "v1", "/", "chat", "/", "completions", ":", "stream">>
    THEN CreateChatCompletionStreamMethod
    ELSE IF /\ method = <<"GET">>
            /\ Len(path) > 5
            /\ SubSeq(path, 1, 5) = <<"/", "v1", "/", "models", "/">>
            /\ \A i \in 6..Len(path) : path[i] # "/"
    THEN GetModelMethod
    ELSE << >>

\* runtime.WithIncomingHeaderMatcher: the ten keys are forwarded under their
\* lower-case names.  Header keys are written in lower case throughout: Go
\* canonicalises the case of a key wherever it reads or sets one.
incomingHeaderMatcher(key) == key \in MDKeys

\* hasSig: a signing attempt is detected
hasSig(h) ==
    \/ headerGet(h, mdAccessKeyID) # << >>
    \/ headerGet(h, mdSignature) # << >>
    \/ headerGet(h, mdTimestamp) # << >>
    \/ headerGet(h, mdNonce) # << >>

\* io.ReadAll(io.LimitReader(body, n)): at most the first n bytes, and the
\* error of a read that fails
readAllLimited(body, n) ==
    [b   |-> IF body.len <= n THEN [body EXCEPT !.readErr = FALSE]
             ELSE [id |-> <<"first", n, body.id>>, len |-> n, readErr |-> FALSE],
     err |-> body.readErr]

\* a cap that refuses a body of maxBody bytes
tooLarge_atLimit(b, err) == err \/ b.len >= maxBody

\* err != nil || int64(len(b)) > maxBody
tooLarge(b, err) == err \/ b.len > maxBody

\* a hash of the body whether or not a signing attempt is detected
bodySum_always(sig, b) == sha256Hex(b)

\* sum: sha256.Sum256(nil) without a signing attempt, sha256.Sum256(b) with one
bodySum(sig, b) == IF ~sig THEN sha256Hex(EmptyBody) ELSE sha256Hex(b)

\* the handler mounted at "/": stamp the HTTP signing context, hash the body,
\* hand the request to the gateway mux, which forwards the matched headers and
\* the body.  The mux answers by itself a path it has no route for and a body
\* it cannot read.
gatewayHandler(r) ==
    LET h1   == headerSet(r.Header, mdHTTPMethod, r.Method)
        h2   == headerSet(h1, mdHTTPPath, r.Path)
        h3   == headerSet(h2, mdHTTPQuery, r.RawQuery)
        sig  == hasSig(h3)
        rd   == readAllLimited(r.Body, maxBody + 1)
        body == IF sig THEN rd.b ELSE r.Body
        h4   == headerSet(h3, mdBodySHA256, bodySum(sig, rd.b))
        fm   == route(r.Method, r.Path)
        answered(st) == [status |-> st, fullMethod |-> << >>, md |-> EmptyMD,
                         body |-> EmptyBody]
    IN  IF sig /\ tooLarge(rd.b, rd.err)
        THEN answered("RequestEntityTooLarge")
        ELSE IF fm = << >>
        THEN answered("NotFound")
        ELSE IF body.readErr
        THEN answered("BadRequest")
        ELSE [status |-> "Forwarded", fullMethod |-> fm,
              md |-> [k \in MDKeys |-> IF incomingHeaderMatcher(k) THEN h4[k] ELSE << >>],
              body |-> body]

----------------------------------------------------------------------------
(* Manager: the parts that read or change the credential store and the    *)
(* allowlist                                                               *)

EmptyMap == << >>

\* a generator that returns the same bytes on every draw
randHex_repeats(n) == <<"ak", "1">>

\* randHex(16) and randB64(32): the n-th draw.  A draw is modelled as a value
\* no earlier draw returned.
randHex(n) == <<"ak">> \o FormatNat(n)
randB64(n) == <<"sk">> \o FormatNat(n)

\* an issuance that also moves the expiry of the subject's earlier records to
\* the new one
IssueTemporaryCredentials_renews(en, st, ttl, tmps, serviceToken, t) ==
    LET a == AuthenticateServiceToken(en, st, serviceToken)
        n == Cardinality(DOMAIN tmps) + 1
    IN  IF ~en THEN [err |-> "Forbidden", creds |-> << >>, temps |-> tmps]
        ELSE IF ~a.ok THEN [err |-> Unauthenticated, creds |-> << >>, temps |-> tmps]
        ELSE [err   |-> OK,
              creds |-> <<[AccessKeyID |-> randHex(n), AccessKeySecret |-> randB64(n),
                           ExpiresAt |-> t + ttl, Subject |-> a.subject]>>,
              temps |-> (randHex(n) :> [secret |-> randB64(n), expiresAt |-> t + ttl,
                                        subject |-> a.subject])
                        @@ [k \in DOMAIN tmps |->
                               IF tmps[k].subject = a.subject
                               THEN [tmps[k] EXCEPT !.expiresAt = t + ttl]
                               ELSE tmps[k]]]

\* an issuance that writes the record before it looks at the token
IssueTemporaryCredentials_storeFirst(en, st, ttl, tmps, serviceToken, t) ==
    LET a      == AuthenticateServiceToken(en, st, serviceToken)
        n      == Cardinality(DOMAIN tmps) + 1
        stored == (randHex(n) :> [secret |-> randB64(n), expiresAt |-> t + ttl,
                                  subject |-> a.subject]) @@ tmps
    IN  IF ~en THEN [err |-> "Forbidden", creds |-> << >>, temps |-> tmps]
        ELSE IF ~a.ok THEN [err |-> Unauthenticated, creds |-> << >>, temps |-> stored]
        ELSE [err   |-> OK,
              creds |-> <<[AccessKeyID |-> randHex(n), AccessKeySecret |-> randB64(n),
                           ExpiresAt |-> t + ttl, Subject |-> a.subject]>>,
              temps |-> stored]

\* Manager.IssueTemporaryCredentials: the error, the credentials returned and
\* the store afterwards
IssueTemporaryCredentials(en, st, ttl, tmps, serviceToken, t) ==
    IF ~en
    THEN [err |-> "Forbidden", creds |-> << >>, temps |-> tmps]
    ELSE LET a == AuthenticateServiceToken(en, st, serviceToken)
         IN  IF ~a.ok
             THEN [err |-> Unauthenticated, creds |-> << >>, temps |-> tmps]
             ELSE LET n      == Cardinality(DOMAIN tmps) + 1
                      akid   == randHex(n)
                      secret == randB64(n)
                      exp    == t + ttl
                  IN  [err   |-> OK,
                       creds |-> <<[AccessKeyID     |-> akid,
                                    AccessKeySecret |-> secret,
                                    ExpiresAt       |-> exp,
                                    Subject         |-> a.subject]>>,
                       temps |-> (akid :> [secret    |-> secret,
                                           expiresAt |-> exp,
                                           subject   |-> a.subject]) @@ tmps]

\* a test that looks for the URL in the set of any subject
IsUsageCallbackAllowed_anySubject(en, allow, subject, url) ==
    en /\ subject # << >> /\ url # << >> /\ \E x \in DOMAIN allow : url \in allow[x]

\* a test that drops a trailing "/" of the URL before it looks it up
IsUsageCallbackAllowed_normalised(en, allow, subject, url) ==
    LET n == Len(url)
        u == IF n > 0 /\ url[n] = "/" THEN SubSeq(url, 1, n - 1) ELSE url
    IN  en /\ subject # << >> /\ u # << >> /\ subject \in DOMAIN allow /\ u \in allow[subject]

\* Manager.IsUsageCallbackAllowed
IsUsageCallbackAllowed(en, allow, subject, url) ==
    IF ~en THEN FALSE
    ELSE IF subject = << >> \/ url = << >> THEN FALSE
    ELSE IF subject \notin DOMAIN allow THEN FALSE
    ELSE IF allow[subject] = {} THEN FALSE
    ELSE url \in allow[subject]

\* url.Parse on the URLs callers register: the scheme is the leading name
\* before ":", the host is what follows "//" up to the next "/", and an
\* invalid percent-escape is a parse error
urlParse(raw) ==
    LET n      == Len(raw)
        hasSch == n >= 2 /\ raw[2] = ":" /\ raw[1] \notin {"/", ":", "%zz"}
        rest   == IF hasSch THEN SubSeq(raw, 3, n) ELSE raw
        hasAut == Len(rest) >= 2 /\ rest[1] = "/" /\ rest[2] = "/"
        host   == IF hasAut /\ Len(rest) >= 3 /\ rest[3] # "/" THEN <<rest[3]>> ELSE << >>
    IN  [err    |-> \E i \in 1..n : raw[i] = "%zz",
         Scheme |-> IF hasSch THEN <<raw[1]>> ELSE << >>,
         Host   |-> host]

\* validateCallbackURL
validateCallbackURL(raw) ==
    LET u == urlParse(raw)
    IN  IF u.err THEN "Forbidden"
        ELSE IF u.Scheme # <<"http">> /\ u.Scheme # <<"https">> THEN "Forbidden"
        ELSE IF u.Host = << >> THEN "Forbidden"
        ELSE OK

\* the loop of SetUsageCallbackAllowlist over urls[i..]: empty strings are
\* skipped, the first invalid URL ends the loop with its error
RECURSIVE collectURLs(_, _, _)
collectURLs(urls, i, set) ==
    IF i > Len(urls) THEN [err |-> OK, set |-> set]
    ELSE IF urls[i] = << >> THEN collectURLs(urls, i + 1, set)
    ELSE IF validateCallbackURL(urls[i]) # OK
    THEN [err |-> validateCallbackURL(urls[i]), set |-> set]
    ELSE collectURLs(urls, i + 1, set \cup {urls[i]})

\* a deletion that empties the allowlist
deleteSubject_all(allow, subject) == EmptyMap

\* the allowlist with the entry of a subject deleted
deleteSubject(allow, subject) ==
    IF DOMAIN allow \ {subject} = {} THEN EmptyMap
    ELSE [x \in DOMAIN allow \ {subject} |-> allow[x]]

\* a SetUsageCallbackAllowlist that stores the set it collected, empty or not
SetUsageCallbackAllowlist_storesEmpty(en, allow, subject, urls) ==
    IF ~en \/ subject = << >> THEN [err |-> "Forbidden", allowlist |-> allow]
    ELSE LET c == collectURLs(urls, 1, {})
         IN  IF c.err # OK THEN [err |-> c.err, allowlist |-> allow]
             ELSE [err |-> OK,
                   allowlist |-> [x \in DOMAIN allow \cup {subject} |->
                                     IF x = subject THEN c.set ELSE allow[x]]]

\* a SetUsageCallbackAllowlist that stores the URLs it has validated so far
\* when it meets an invalid one
SetUsageCallbackAllowlist_partial(en, allow, subject, urls) ==
    IF ~en \/ subject = << >> THEN [err |-> "Forbidden", allowlist |-> allow]
    ELSE LET c == collectURLs(urls, 1, {})
         IN  [err |-> c.err,
              allowlist |-> IF c.set = {} THEN allow ELSE (subject :> c.set) @@ allow]

\* a SetUsageCallbackAllowlist that adds to the subject's set
SetUsageCallbackAllowlist_merge(en, allow, subject, urls) ==
    IF ~en \/ subject = << >> THEN [err |-> "Forbidden", allowlist |-> allow]
    ELSE LET c   == collectURLs(urls, 1, {})
             old == IF subject \in DOMAIN allow THEN allow[subject] ELSE {}
         IN  IF c.err # OK THEN [err |-> c.err, allowlist |-> allow]
             ELSE IF c.set = {} THEN [err |-> OK, allowlist |-> deleteSubject(allow, subject)]
             ELSE [err |-> OK, allowlist |-> (subject :> (old \cup c.set)) @@ allow]

\* Manager.SetUsageCallbackAllowlist: the error and the allowlist afterwards
SetUsageCallbackAllowlist(en, allow, subject, urls) ==
    IF ~en THEN [err |-> "Forbidden", allowlist |-> allow]
    ELSE IF subject = << >> THEN [err |-> "Forbidden", allowlist |-> allow]
    ELSE LET c == collectURLs(urls, 1, {})
         IN  IF c.err # OK THEN [err |-> c.err, allowlist |-> allow]
             ELSE IF c.set = {}
             THEN [err |-> OK, allowlist |-> deleteSubject(allow, subject)]
             ELSE [err |-> OK, allowlist |-> (subject :> c.set) @@ allow]

\* the bytes of the atoms callback URLs are written with
Bytes(a) ==
    CASE a = "http"      -> <<104, 116, 116, 112>>
      [] a = "https"     -> <<104, 116, 116, 112, 115>>
      [] a = "ftp"       -> <<102, 116, 112>>
      [] a = ":"         -> <<58>>
      [] a = "/"         -> <<47>>
      [] a = "a.example" -> <<97, 46, 101, 120, 97, 109, 112, 108, 101>>
      [] a = "b.example" -> <<98, 46, 101, 120, 97, 109, 112, 108, 101>>
      [] a = "c.example" -> <<99, 46, 101, 120, 97, 109, 112, 108, 101>>
      [] a = "cb"        -> <<99, 98>>
      [] a = "x"         -> <<120>>
      [] a = "%zz"       -> <<37, 122, 122>>

RECURSIVE StringBytes(_)
StringBytes(str) ==
    IF str = << >> THEN << >> ELSE Bytes(Head(str)) \o StringBytes(Tail(str))

\* the order of Go strings: byte by byte, a proper prefix first
RECURSIVE bytesLess(_, _)
bytesLess(x, y) ==
    IF y = << >> THEN FALSE
    ELSE IF x = << >> THEN TRUE
    ELSE IF Head(x) < Head(y) THEN TRUE
    ELSE IF Head(x) > Head(y) THEN FALSE
    ELSE bytesLess(Tail(x), Tail(y))

stringLess(a, b) == bytesLess(StringBytes(a), StringBytes(b))

\* sort.Strings on the elements of a set
RECURSIVE sortStrings(_)
sortStrings(set) ==
    IF set = {} THEN << >>
    ELSE LET least == CHOOSE x \in set : \A y \in set \ {x} : stringLess(x, y)
         IN  <<least>> \o sortStrings(set \ {least})

\* a listing in the opposite order
UsageCallbackAllowlist_descending(en, allow, subject) ==
    IF ~en \/ subject = << >> \/ subject \notin DOMAIN allow THEN << >>
    ELSE LET asc == sortStrings(allow[subject])
         IN  [i \in 1..Len(asc) |-> asc[Len(asc) + 1 - i]]

\* Manager.UsageCallbackAllowlist: nil is the empty list
UsageCallbackAllowlist(en, allow, subject) ==
    IF ~en THEN << >>
    ELSE IF subject = << >> THEN << >>
    ELSE IF subject \notin DOMAIN allow THEN << >>
    ELSE IF allow[subject] = {} THEN << >>
    ELSE sortStrings(allow[subject])

----------------------------------------------------------------------------
(* Configurations and callers *)

\* the clock at start, in minutes: far from the zero of Unix time
StartTime == 10

TokA     == <<"tokA">>
TokB     == <<"tokB">>
BadToken == <<"bad">>

\* auth.service_tokens and auth.temp_ttl of the configurations explored
Configs ==
    { [tokens |-> << [Name |-> <<"old">>,   Token |-> TokA],
                     [Name |-> <<"alice">>, Token |-> TokA],
                     [Name |-> << >>,       Token |-> TokB],
                     [Name |-> <<"ghost">>, Token |-> << >>] >>,
       ttl    |-> 2],
      [tokens |-> << [Name |-> <<"ghost">>, Token |-> << >>] >>,
       ttl    |-> 0],
      [tokens |-> << >>,
       ttl    |-> 0] }

Methods == {IssueTemporaryCredentialsMethod, CreateChatCompletionMethod,
            CreateChatCompletionStreamMethod}

Nonce1     == <<"n1">>
URL1       == <<"https", ":", "/", "/", "a.example", "/", "cb">>
URL2       == <<"https", ":", "/", "/", "b.example", "/", "cb">>
UnknownKey == <<"ak", "0">>
\* a secret the server never issued
ForeignSecret == <<"sk", "0">>

NotHex == <<[bytes |-> << >>, form |-> "nothex"]>>

upperHex(h) == [i \in DOMAIN h |-> [h[i] EXCEPT !.form = "upper"]]

\* a header or metadata key carrying one value, or absent when v is empty
val(v) == IF v = << >> THEN << >> ELSE <<v>>

StoreSecrets(tmps) == {tmps[k].secret : k \in DOMAIN tmps}

otherCallback(in) ==
    [in EXCEPT !.CallbackURL = IF in.CallbackURL = URL1 THEN URL2 ELSE URL1]

\* the signatures a caller presents for a call the server will see as `view`:
\* none, no hex string, the signature of the call under a secret it holds or a
\* foreign one, that signature in upper-case hex, a signature computed for
\* another callback URL
Signatures(view, tmps) ==
    {<< >>, NotHex}
        \cup {hmacSHA256Hex(sk, canonicalString(view)) :
                 sk \in StoreSecrets(tmps) \cup {ForeignSecret}}
        \cup {upperHex(hmacSHA256Hex(sk, canonicalString(view))) :
                 sk \in StoreSecrets(tmps)}
        \cup {hmacSHA256Hex(sk, canonicalString(otherCallback(view))) :
                 sk \in StoreSecrets(tmps)}

\* the timestamps callers send at time t: at the edge of the window in the
\* past, just outside it in the future, and no number
Timestamps(t) == {FormatInt(t - SkewMinutes), FormatInt(t + SkewMinutes + 1), <<"1", "x">>}

withSignature(md, sig) == [md EXCEPT ![mdSignature] = val(sig)]

signedVariants(md, fullMethod, tmps) ==
    {withSignature(md, sig) : sig \in Signatures(signatureInput(md, fullMethod), tmps)}

\* the HTTP context a native caller writes into its own metadata
SpoofedContext ==
    [k \in HTTPContextKeys |->
        IF k = mdHTTPMethod THEN <<"POST">>
        ELSE IF k = mdHTTPPath THEN <<"/", "v1", "/", "chat", "/", "completions">>
        ELSE IF k = mdHTTPQuery THEN << >>
        ELSE sha256Hex(EmptyBody)]

withContext(md, c) == [k \in MDKeys |-> IF k \in HTTPContextKeys THEN val(c[k]) ELSE md[k]]

\* metadata of native calls that carry a static token, alone or with a
\* signature that verifies
TokenMetadata(fullMethod, t, tmps) ==
    LET plain(tok) == [EmptyMD EXCEPT ![mdServiceToken] = val(tok)]
        signed(tok, k) ==
            LET md == [plain(tok) EXCEPT ![mdAccessKeyID] = val(k),
                                         ![mdTimestamp] = val(FormatInt(t)),
                                         ![mdNonce] = val(Nonce1)]
            IN  withSignature(md, hmacSHA256Hex(tmps[k].secret,
                                  canonicalString(signatureInput(md, fullMethod))))
    IN  {plain(tok) : tok \in {TokA, TokB, BadToken}}
            \cup {signed(tok, k) : tok \in {TokA, BadToken}, k \in DOMAIN tmps}

\* metadata of native calls without a static token
SignatureMetadata(fullMethod, t, tmps) ==
    UNION { signedVariants([EmptyMD EXCEPT ![mdAccessKeyID] = val(k),
                                           ![mdTimestamp] = val(ts),
                                           ![mdNonce] = val(nonce),
                                           ![mdCallbackURL] = val(cb)],
                           fullMethod, tmps) :
              k \in DOMAIN tmps \cup {<< >>, UnknownKey},
              ts \in Timestamps(t),
              nonce \in {<< >>, Nonce1},
              cb \in {<< >>, URL1} }

\* metadata of native calls that set the HTTP context keys themselves
SpoofedMetadata(fullMethod, t, tmps) ==
    UNION { signedVariants(withContext([EmptyMD EXCEPT ![mdAccessKeyID] = val(k),
                                                       ![mdTimestamp] = val(FormatInt(t)),
                                                       ![mdNonce] = val(Nonce1)],
                                       SpoofedContext),
                           fullMethod, tmps) :
              k \in DOMAIN tmps }

GRPCMetadata(fullMethod, t, tmps) ==
    TokenMetadata(fullMethod, t, tmps)
        \cup SignatureMetadata(fullMethod, t, tmps)
        \cup SpoofedMetadata(fullMethod, t, tmps)

ChatPath   == <<"/", "v1", "/", "chat", "/", "completions">>
StreamPath == <<"/", "v1", "/", "chat", "/", "completions", ":", "stream">>
OtherPath  == <<"/", "v1", "/", "other">>

Body1      == [id |-> "b1", len |-> 2, readErr |-> FALSE]
LimitBody  == [id |-> "limit", len |-> maxBody, readErr |-> FALSE]
BigBody    == [id |-> "big", len |-> maxBody + 1, readErr |-> FALSE]
BrokenBody == [id |-> "broken", len |-> 2, readErr |-> TRUE]

\* the headers of HTTP requests: signing headers or none, with or without
\* caller-written values for the HTTP context keys
HTTPHeaders(t, tmps) ==
    {withContext(h, c) :
        h \in {EmptyMD, [EmptyMD EXCEPT ![mdServiceToken] = val(TokA)]}
                 \cup {[EmptyMD EXCEPT ![mdAccessKeyID] = val(k),
                                       ![mdTimestamp] = val(FormatInt(t)),
                                       ![mdNonce] = val(Nonce1),
                                       ![mdCallbackURL] = val(cb)] :
                          k \in DOMAIN tmps, cb \in {<< >>, URL1}},
        c \in {[k \in HTTPContextKeys |-> << >>],
               [SpoofedContext EXCEPT ![mdHTTPMethod] = <<"GET">>]}}

\* the signature header of an HTTP request: none, the signature of the request
\* as the gateway forwards it, that signature under a foreign secret, or the
\* signature of the request with another callback URL
HTTPSigned(r, tmps) ==
    LET fwd  == gatewayHandler(r)
        view == signatureInput(fwd.md, fwd.fullMethod)
    IN  {r} \cup {[r EXCEPT !.Header = withSignature(r.Header,
                                           hmacSHA256Hex(sk, canonicalString(view)))] :
                     sk \in StoreSecrets(tmps) \cup {ForeignSecret}}
            \cup {[r EXCEPT !.Header = withSignature(r.Header,
                             hmacSHA256Hex(sk, canonicalString(otherCallback(view))))] :
                     sk \in StoreSecrets(tmps)}

HTTPRequests(t, tmps) ==
    UNION { HTTPSigned([Method |-> <<"POST">>, Path |-> path, RawQuery |-> q,
                        Header |-> h, Body |-> b], tmps) :
              path \in {ChatPath, StreamPath, OtherPath},
              q \in {<< >>, <<"a", "=", "1">>},
              b \in {EmptyBody, Body1, LimitBody, BigBody, BrokenBody},
              h \in HTTPHeaders(t, tmps) }

NoHTTP == [Method |-> << >>, Path |-> << >>, RawQuery |-> << >>,
           Header |-> EmptyMD, Body |-> EmptyBody]

NoProbe == [kind |-> "none"]

\* no notification dispatched, nobody holds the mutex, no concurrent goroutine
NoDeliveries == << >>

Unlocked == [writer |-> 0, readers |-> {}]

NoWorkers == << >>

----------------------------------------------------------------------------
(* The state machine *)

IdleCall ==
    [pc         |-> "idle",
     via        |-> "",
     fullMethod |-> << >>,
     md         |-> EmptyMD,
     http       |-> NoHTTP,
     body       |-> EmptyBody,
     auth       |-> NoDecision,
     authAt     |-> 0,
     ctx        |-> EmptyCtx,
     code       |-> "",
     creds      |-> << >>,
     issuedAt   |-> 0,
     notified   |-> FALSE,
     urls       |-> << >>,
     resp       |-> << >>,
     app        |-> "",
     prev       |-> << >>,
     cancelled  |-> FALSE,
     seen       |-> << >>]

Init ==
    /\ \E cfg \in Configs :
          LET m == NewManager(cfg.tokens, cfg.ttl)
          IN  /\ config = cfg
              /\ enabled = m.enabled
              /\ serviceTokens = m.serviceTokens
              /\ tempTTL = m.tempTTL
              /\ temps = m.temps
              /\ usageCallbackAllowlist = m.usageCallbackAllowlist
    /\ now = StartTime
    /\ call = IdleCall
    /\ probe = NoProbe
    /\ deliveries = NoDeliveries
    /\ mu = Unlocked
    /\ workers = NoWorkers

mgrVars == <<config, enabled, serviceTokens, tempTTL, temps, usageCallbackAllowlist>>

CanArrive == call.pc = "idle"

\* an issuance that will add a record is admitted only below the bound
WithinBound(fullMethod, md) ==
    (/\ fullMethod = IssueTemporaryCredentialsMethod
     /\ AuthenticateServiceToken(enabled, serviceTokens, first(md[mdServiceToken])).ok
     /\ enabled)
        => Cardinality(DOMAIN temps) < MaxIssued

\* time passes
Tick ==
    /\ now < StartTime + MaxTicks
    /\ now' = now + 1
    /\ UNCHANGED <<mgrVars, call, probe, deliveries, mu, workers>>

\* a caller invokes a method on the gRPC server directly
GRPCCall ==
    /\ CanArrive
    /\ \E fm \in Methods : \E md \in GRPCMetadata(fm, now, temps) :
          /\ WithinBound(fm, md)
          /\ call' = [IdleCall EXCEPT !.pc = "received", !.via = "grpc",
                                      !.fullMethod = fm, !.md = md]
    /\ UNCHANGED <<mgrVars, now, probe, deliveries, mu, workers>>

\* a caller sends an HTTP request to the gateway, which answers it itself or
\* forwards it to the gRPC server
HTTPCall ==
    /\ CanArrive
    /\ \E r \in HTTPRequests(now, temps) :
          LET fwd == gatewayHandler(r)
          IN  IF fwd.status # "Forwarded"
              THEN call' = [IdleCall EXCEPT !.pc = "refused", !.via = "http",
                                            !.http = r, !.code = fwd.status]
              ELSE /\ WithinBound(fwd.fullMethod, fwd.md)
                   /\ call' = [IdleCall EXCEPT !.pc = "received", !.via = "http",
                                               !.http = r, !.fullMethod = fwd.fullMethod,
                                               !.md = fwd.md, !.body = fwd.body]
    /\ UNCHANGED <<mgrVars, now, probe, deliveries, mu, workers>>

\* the interceptor's step for the call in flight
Intercepted ==
    LET r == intercept(enabled, serviceTokens, temps, call.md, call.fullMethod, now)
    IN  IF r.proceed
        THEN [call EXCEPT !.pc = "handler", !.auth = r.auth, !.authAt = now,
                          !.ctx = r.ctx]
        ELSE [call EXCEPT !.pc = "rejected", !.auth = r.auth, !.authAt = now,
                          !.code = r.auth.err]

UnaryServerInterceptor ==
    /\ call.pc = "received"
    /\ call.fullMethod \in UnaryMethods
    /\ call' = Intercepted
    /\ UNCHANGED <<mgrVars, now, probe, deliveries, mu, workers>>

\* the stream interceptor's step for the call in flight
StreamIntercepted ==
    LET r == interceptStream(enabled, serviceTokens, temps, call.md, call.fullMethod, now)
    IN  IF r.proceed
        THEN [call EXCEPT !.pc = "handler", !.auth = r.auth, !.authAt = now,
                          !.ctx = r.ctx]
        ELSE [call EXCEPT !.pc = "rejected", !.auth = r.auth, !.authAt = now,
                          !.code = r.auth.err]

StreamServerInterceptor ==
    /\ call.pc = "received"
    /\ call.fullMethod \in StreamMethods
    /\ call' = StreamIntercepted
    /\ UNCHANGED <<mgrVars, now, probe, deliveries, mu, workers>>

\* LLMGatewayService.IssueTemporaryCredentials
IssueTemporaryCredentialsHandler ==
    /\ call.pc = "handler"
    /\ call.fullMethod = IssueTemporaryCredentialsMethod
    /\ LET r == IssueTemporaryCredentials(enabled, serviceTokens, tempTTL, temps,
                                          first(call.md[mdServiceToken]), now)
       IN  /\ temps' = r.temps
           /\ call' = [call EXCEPT !.pc = "done",
                                   !.code = IF r.err = "Forbidden"
                                            THEN "FailedPrecondition" ELSE r.err,
                                   !.creds = r.creds,
                                   !.issuedAt = now]
    /\ UNCHANGED <<config, enabled, serviceTokens, tempTTL, usageCallbackAllowlist, now, probe, deliveries, mu, workers>>

\* a dispatch decided on the allowlist as it stood when the call's credential
\* was issued, where the run recorded it
maybeSendUsageCallback_atIssuance(en, allow, ctx, md) ==
    LET subject == ctx.subject
        cbURL   == first(md[mdCallbackURL])
        old     == IF probe.kind = "issuedUnder" /\ ctx.method = MethodSignature
                   THEN probe.allowlist ELSE allow
    IN  /\ subject # << >>
        /\ cbURL # << >>
        /\ IsUsageCallbackAllowed(en, old, subject, cbURL)

\* maybeSendUsageCallback: whether a notification is dispatched
maybeSendUsageCallback(en, allow, ctx, md) ==
    LET subject == ctx.subject
        cbURL   == first(md[mdCallbackURL])
    IN  /\ subject # << >>
        /\ cbURL # << >>
        /\ IsUsageCallbackAllowed(en, allow, subject, cbURL)

\* the request context is cancelled: the sends that run under it end with it,
\* the sends under context.Background() are not reached
cancelChildren(dels) ==
    [i \in DOMAIN dels |->
        IF dels[i].parent = "request" /\ dels[i].status = "inflight"
        THEN [dels[i] EXCEPT !.status = "cancelled"]
        ELSE dels[i]]

\* the context the dispatching goroutine passes to Sender.Send
dispatchContext_request == "request"

dispatchContext == "Background"

\* the notification maybeSendUsageCallback hands to its goroutine
newDelivery(ctx, md, op) ==
    [url     |-> first(md[mdCallbackURL]),
     subject |-> SubjectFromContext(ctx),
     op      |-> op,
     parent  |-> dispatchContext,
     status  |-> "inflight"]

\* what s.app returns: nil, an llm.ErrInvalidArgument, any other error
AppResults == {"nil", "ErrInvalidArgument", "error"}

\* toStatusErr
toStatusErr(err) ==
    IF err = "nil" THEN OK
    ELSE IF err = "ErrInvalidArgument" THEN "InvalidArgument"
    ELSE "Internal"

\* a handler that answers PermissionDenied when the declared callback URL is
\* refused
handlerStatus_surfacesRefusal(app, declared, sent) ==
    IF app = "nil" /\ declared /\ ~sent THEN "PermissionDenied" ELSE toStatusErr(app)

\* the status a business handler returns: the application's result alone
handlerStatus(app, declared, sent) == toStatusErr(app)

\* a business handler: the application call, the usage callback on success,
\* the response
businessHandler(op) ==
    \E app \in AppResults :
        LET sent == /\ app = "nil"
                    /\ maybeSendUsageCallback(enabled, usageCallbackAllowlist,
                                              call.ctx, call.md)
            declared == first(call.md[mdCallbackURL]) # << >>
        IN  /\ call' = [call EXCEPT !.pc = "done",
                                    !.app = app,
                                    !.code = handlerStatus(app, declared, sent),
                                    !.notified = sent]
            /\ deliveries' = IF sent
                             THEN Append(deliveries, newDelivery(call.ctx, call.md, op))
                             ELSE deliveries

\* LLMGatewayService.CreateChatCompletion: the application call fails or
\* succeeds; on success the usage callback is considered
CreateChatCompletionHandler ==
    /\ call.pc = "handler"
    /\ call.fullMethod = CreateChatCompletionMethod
    /\ businessHandler("chat.completions")
    /\ UNCHANGED <<mgrVars, now, probe, mu, workers>>

\* LLMGatewayService.CreateEmbeddings
CreateEmbeddingsHandler ==
    /\ call.pc = "handler"
    /\ call.fullMethod = CreateEmbeddingsMethod
    /\ businessHandler("embeddings")
    /\ UNCHANGED <<mgrVars, now, probe, mu, workers>>

\* a handler without the method requirement
SetUsageCallback_anyMethod(en, allow, ctx, urls) ==
    LET subject == SubjectFromContext(ctx)
        r == SetUsageCallbackAllowlist(en, allow, subject, urls)
    IN  IF subject = << >>
        THEN [code |-> "PermissionDenied", resp |-> << >>, allowlist |-> allow]
        ELSE IF r.err # OK
        THEN [code |-> "InvalidArgument", resp |-> << >>, allowlist |-> allow]
        ELSE [code |-> OK, resp |-> UsageCallbackAllowlist(en, r.allowlist, subject),
              allowlist |-> r.allowlist]

\* LLMGatewayService.SetUsageCallback: the status, the URLs returned and the
\* allowlist afterwards
SetUsageCallback(en, allow, ctx, urls) ==
    IF MethodFromContext(ctx) # MethodServiceToken
    THEN [code |-> "PermissionDenied", resp |-> << >>, allowlist |-> allow]
    ELSE IF SubjectFromContext(ctx) = << >>
    THEN [code |-> "PermissionDenied", resp |-> << >>, allowlist |-> allow]
    ELSE LET subject == SubjectFromContext(ctx)
             r == SetUsageCallbackAllowlist(en, allow, subject, urls)
         IN  IF r.err = "Forbidden"
             THEN [code |-> "InvalidArgument", resp |-> << >>, allowlist |-> r.allowlist]
             ELSE IF r.err # OK
             THEN [code |-> "Internal", resp |-> << >>, allowlist |-> r.allowlist]
             ELSE [code |-> OK,
                   resp |-> UsageCallbackAllowlist(en, r.allowlist, subject),
                   allowlist |-> r.allowlist]

\* LLMGatewayService.GetUsageCallback: the status and the URLs returned
GetUsageCallback(en, allow, ctx) ==
    IF MethodFromContext(ctx) # MethodServiceToken
    THEN [code |-> "PermissionDenied", resp |-> << >>]
    ELSE IF SubjectFromContext(ctx) = << >>
    THEN [code |-> "PermissionDenied", resp |-> << >>]
    ELSE [code |-> OK, resp |-> UsageCallbackAllowlist(en, allow, SubjectFromContext(ctx))]

SetUsageCallbackHandler ==
    /\ call.pc = "handler"
    /\ call.fullMethod = SetUsageCallbackMethod
    /\ LET r == SetUsageCallback(enabled, usageCallbackAllowlist, call.ctx, call.urls)
       IN  /\ usageCallbackAllowlist' = r.allowlist
           /\ call' = [call EXCEPT
                          !.pc = "done", !.code = r.code, !.resp = r.resp,
                          !.prev = UsageCallbackAllowlist(enabled, usageCallbackAllowlist,
                                                          SubjectFromContext(call.ctx))]
    /\ UNCHANGED <<config, enabled, serviceTokens, tempTTL, temps, now, probe,
                   deliveries, mu, workers>>

GetUsageCallbackHandler ==
    /\ call.pc = "handler"
    /\ call.fullMethod = GetUsageCallbackMethod
    /\ LET r == GetUsageCallback(enabled, usageCallbackAllowlist, call.ctx)
       IN  call' = [call EXCEPT !.pc = "done", !.code = r.code, !.resp = r.resp]
    /\ UNCHANGED <<mgrVars, now, probe, deliveries, mu, workers>>

\* LLMGatewayService.CreateChatCompletionStream
CreateChatCompletionStreamHandler ==
    /\ call.pc = "handler"
    /\ call.fullMethod = CreateChatCompletionStreamMethod
    /\ call' = [call EXCEPT !.pc = "done", !.code = "Unimplemented"]
    /\ UNCHANGED <<mgrVars, now, probe, deliveries, mu, workers>>

\* the answer of the call in flight is delivered: the server is ready for
\* the next call
Return ==
    /\ call.pc \in {"rejected", "done", "refused"}
    /\ call' = IdleCall
    /\ deliveries' = cancelChildren(deliveries)
    /\ UNCHANGED <<mgrVars, now, probe, mu, workers>>

Next ==
    \/ Tick
    \/ GRPCCall
    \/ HTTPCall
    \/ UnaryServerInterceptor
    \/ StreamServerInterceptor
    \/ IssueTemporaryCredentialsHandler
    \/ CreateChatCompletionHandler
    \/ CreateChatCompletionStreamHandler
    \/ Return

Spec == Init /\ [][Next]_vars

-----------------------------------------------------------------------------
(* The callback allowlist and the usage notifications: callers manage their
   allowlists, run business operations that declare a callback URL, and
   disconnect; dispatched notifications end on their own *)

URLHttp      == <<"http", ":", "/", "/", "c.example", "/", "cb">>
URLFtp       == <<"ftp", ":", "/", "/", "x">>
URLNoHost    == <<"https", ":", "/", "/", "/", "cb">>
URLNoScheme  == <<"a.example", "/", "cb">>
URLBadEscape == <<"https", ":", "/", "/", "a.example", "/", "%zz">>

\* the lists callers send to SetUsageCallback: empty, empty strings only, one
\* URL, an unsorted list
\* with a duplicate and an empty string, lists with a malformed URL after a
\* valid one or alone
URLLists ==
    { << >>,
      << << >>, << >> >>,
      <<URL1>>,
      <<URL2, << >>, URL1, URL2>>,
      <<URL2, URLHttp>>,
      <<URL2, URLFtp>>,
      <<URL1, URLNoHost, URL2>>,
      <<URLNoScheme>>,
      <<URLBadEscape>> }

MalformedURLs == {URLFtp, URLNoHost, URLNoScheme, URLBadEscape}

BusinessMethods == {CreateChatCompletionMethod, CreateEmbeddingsMethod}

CallbackMethods ==
    {IssueTemporaryCredentialsMethod, SetUsageCallbackMethod, GetUsageCallbackMethod}
        \cup BusinessMethods

\* the metadata of these callers: none, a static token, a live credential's
\* signature; business calls declare a callback URL or none
CallbackMetadata(fullMethod, t, tmps) ==
    LET cbs == IF fullMethod \in BusinessMethods THEN {<< >>, URL1, URL2} ELSE {<< >>}
        base(cb) == [EmptyMD EXCEPT ![mdCallbackURL] = val(cb)]
        signed(k, cb) ==
            LET md == [base(cb) EXCEPT ![mdAccessKeyID] = val(k),
                                       ![mdTimestamp] = val(FormatInt(t)),
                                       ![mdNonce] = val(Nonce1)]
            IN  withSignature(md, hmacSHA256Hex(tmps[k].secret,
                                  canonicalString(signatureInput(md, fullMethod))))
    IN  {base(cb) : cb \in cbs}
            \cup {[base(cb) EXCEPT ![mdServiceToken] = val(tok)] :
                     cb \in cbs, tok \in {TokA, TokB, BadToken}}
            \cup {signed(k, cb) : cb \in cbs, k \in DOMAIN tmps}

\* a caller invokes a method of the service
CallbackCall ==
    /\ CanArrive
    /\ \E fm \in CallbackMethods : \E md \in CallbackMetadata(fm, now, temps) :
       \E urls \in IF fm = SetUsageCallbackMethod THEN URLLists ELSE {<< >>} :
          /\ WithinBound(fm, md)
          /\ fm \in BusinessMethods => Len(deliveries) < MaxDispatched
          /\ call' = [IdleCall EXCEPT !.pc = "received", !.via = "grpc",
                                      !.fullMethod = fm, !.md = md, !.urls = urls]
    /\ UNCHANGED <<mgrVars, now, probe, deliveries, mu, workers>>

\* the caller cancels the call in flight or disconnects: the request context
\* is cancelled
Cancel ==
    /\ call.pc \in {"received", "handler", "done"}
    /\ ~call.cancelled
    /\ call' = [call EXCEPT !.cancelled = TRUE]
    /\ deliveries' = cancelChildren(deliveries)
    /\ UNCHANGED <<mgrVars, now, probe, mu, workers>>

\* Sender.Send returns: a 2xx answer, a transport error or another status,
\* or its own timeout
SendReturns ==
    /\ \E i \in DOMAIN deliveries :
          /\ deliveries[i].status = "inflight"
          /\ \E outcome \in {"delivered", "failed", "timeout"} :
                deliveries' = [deliveries EXCEPT ![i].status = outcome]
    /\ UNCHANGED <<mgrVars, now, call, probe, mu, workers>>

NextCallback ==
    \/ CallbackCall
    \/ UnaryServerInterceptor
    \/ IssueTemporaryCredentialsHandler
    \/ SetUsageCallbackHandler
    \/ GetUsageCallbackHandler
    \/ CreateChatCompletionHandler
    \/ CreateEmbeddingsHandler
    \/ Cancel
    \/ SendReturns
    \/ Return

SpecCallback == Init /\ [][NextCallback]_vars

\* Sender.Send runs under context.WithTimeout: it returns
SpecCallbackLive == SpecCallback /\ WF_vars(SendReturns)

-----------------------------------------------------------------------------
(* Credentials over time: callers issue credentials one after another, sign
   calls with them and replace allowlists while time passes *)

\* the metadata of these callers: a static token, or the signature of a
\* credential of the store, live or expired, stamped with the current time or
\* a time three minutes back
LifetimeMetadata(fullMethod, t, tmps) ==
    LET signed(k, ts) ==
            LET md == [EmptyMD EXCEPT ![mdAccessKeyID] = val(k),
                                      ![mdTimestamp] = val(FormatInt(ts)),
                                      ![mdNonce] = val(Nonce1)]
            IN  withSignature(md, hmacSHA256Hex(tmps[k].secret,
                                  canonicalString(signatureInput(md, fullMethod))))
    IN  IF fullMethod = CreateChatCompletionMethod
        THEN {signed(k, ts) : k \in DOMAIN tmps, ts \in {t, t - 3}}
        ELSE {[EmptyMD EXCEPT ![mdServiceToken] = val(tok)] : tok \in {TokA, TokB}}

LifetimeMethods ==
    {IssueTemporaryCredentialsMethod, SetUsageCallbackMethod, CreateChatCompletionMethod}

LifetimeCall ==
    /\ CanArrive
    /\ \E fm \in LifetimeMethods : \E md \in LifetimeMetadata(fm, now, temps) :
       \E urls \in IF fm = SetUsageCallbackMethod THEN {<< >>, <<URL1>>} ELSE {<< >>} :
          /\ fm = IssueTemporaryCredentialsMethod =>
                 Cardinality(DOMAIN temps) < MaxIssued + 1
          /\ call' = [IdleCall EXCEPT !.pc = "received", !.via = "grpc",
                                      !.fullMethod = fm, !.md = md, !.urls = urls]
    /\ UNCHANGED <<mgrVars, now, probe, deliveries, mu, workers>>

\* somebody who sees the accepted call in flight keeps its metadata
Capture ==
    /\ probe = NoProbe
    /\ enabled
    /\ call.pc = "handler"
    /\ call.auth.method = MethodSignature
    /\ probe' = [kind |-> "captured", md |-> call.md, fullMethod |-> call.fullMethod,
                 acceptedAt |-> call.authAt]
    /\ UNCHANGED <<mgrVars, now, call, deliveries, mu, workers>>

\* the kept metadata is presented again, as it is
ReplayedCall ==
    /\ CanArrive
    /\ probe.kind = "captured"
    /\ call' = [IdleCall EXCEPT !.pc = "received", !.via = "grpc",
                                !.fullMethod = probe.fullMethod, !.md = probe.md]
    /\ UNCHANGED <<mgrVars, now, probe, deliveries, mu, workers>>

NextLifetime ==
    \/ Tick
    \/ LifetimeCall
    \/ Capture
    \/ ReplayedCall
    \/ UnaryServerInterceptor
    \/ IssueTemporaryCredentialsHandler
    \/ SetUsageCallbackHandler
    \/ CreateChatCompletionHandler
    \/ Return

SpecLifetime == Init /\ [][NextLifetime]_vars

-----------------------------------------------------------------------------
(* The DashScope provider: NewProvider, the two operations and doJSON, against
   an upstream that answers, fails or cannot be reached *)

\* client.go: timeout = 20 * time.Second, in seconds
defaultTimeout == 20

\* strings.TrimRight(s, "/")
RECURSIVE TrimRight(_)
TrimRight(s) ==
    IF s # << >> /\ s[Len(s)] = "/" THEN TrimRight(SubSeq(s, 1, Len(s) - 1)) ELSE s

NewProvider(baseURL, apiKey, timeout) ==
    [baseURL |-> TrimRight(baseURL),
     apiKey  |-> apiKey,
     timeout |-> IF timeout <= 0 THEN defaultTimeout ELSE timeout]

\* json.Marshal of a string: quotes and backslashes are escaped, "<" is written
\* as \u003c
RECURSIVE jsonEscape(_)
jsonEscape(str) ==
    IF str = << >> THEN << >>
    ELSE (IF Head(str) = "\"" THEN <<"\\", "\"">>
          ELSE IF Head(str) = "\\" THEN <<"\\", "\\">>
          ELSE IF Head(str) = "<" THEN <<"\\", "u003c">>
          ELSE <<Head(str)>>) \o jsonEscape(Tail(str))

jsonMarshalString(str) == <<"\"">> \o jsonEscape(str) \o <<"\"">>

\* the string a JSON decoder reads from the characters between the quotes
RECURSIVE jsonUnescape(_)
jsonUnescape(raw) ==
    IF raw = << >> THEN << >>
    ELSE IF Head(raw) = "\\" /\ Len(raw) >= 2
    THEN (IF raw[2] = "u003c" THEN <<"<">> ELSE <<raw[2]>>)
             \o jsonUnescape(SubSeq(raw, 3, Len(raw)))
    ELSE <<Head(raw)>> \o jsonUnescape(Tail(raw))

jsonDecodeString(js) == jsonUnescape(SubSeq(js, 2, Len(js) - 1))

\* what the upstream does with a request: a 2xx answer with a JSON body, a 2xx
\* answer that is not JSON, a 400, another status, no answer
Upstreams == {"ok", "notJSON", "badRequest", "serverError", "unreachable"}

\* a doJSON that sends the request whatever the key is
doJSON_noKeyTest(p, method, url, in, upstream) ==
    LET r == [Method |-> method, URL |-> url,
              ContentType |-> <<"application/json">>,
              Authorization |-> <<"Bearer", " ">> \o p.apiKey,
              Body |-> [model |-> jsonMarshalString(in.Model)]]
    IN  [sent |-> <<r>>, err |-> IF upstream = "ok" THEN "nil" ELSE "error"]

\* Provider.doJSON: the request sent, if any, and the error returned
doJSON(p, method, url, in, upstream) ==
    IF p.apiKey = << >> THEN [sent |-> << >>, err |-> "error"]
    ELSE IF urlParse(url).err THEN [sent |-> << >>, err |-> "error"]
    ELSE LET r == [Method |-> method, URL |-> url,
                   ContentType |-> <<"application/json">>,
                   Authorization |-> <<"Bearer", " ">> \o p.apiKey,
                   Body |-> [model |-> jsonMarshalString(in.Model)]]
         IN  [sent |-> <<r>>,
              err  |-> IF upstream = "unreachable" THEN "error"
                       ELSE IF upstream = "badRequest" THEN "ErrInvalidArgument"
                       ELSE IF upstream = "serverError" THEN "error"
                       ELSE IF upstream = "notJSON" THEN "error"
                       ELSE "nil"]

\* Provider.CreateChatCompletion and Provider.CreateEmbeddings, as far as the
\* request goes
ProviderCreateChatCompletion(p, req, upstream) ==
    doJSON(p, <<"POST">>, p.baseURL \o <<"/", "chat", "/", "completions">>,
           [Model |-> req.Model], upstream)

ProviderCreateEmbeddings(p, req, upstream) ==
    doJSON(p, <<"POST">>, p.baseURL \o <<"/", "embeddings">>, [Model |-> req.Model],
           upstream)

BaseURLs ==
    { <<"https", ":", "/", "/", "up.example", "/", "v1">>,
      <<"https", ":", "/", "/", "up.example", "/", "v1", "/">>,
      <<"https", ":", "/", "/", "up.example", "/", "/">>,
      <<"https", ":", "/", "/", "up.example", "/", "%zz">> }

APIKeys == {<< >>, <<"testkey">>}

ModelNames == {<< >>, <<"qwen-turbo">>, <<"a", "\"", "<", "\\", "b">>}

InitProvider ==
    /\ LET m == NewManager(<< >>, 0)
       IN  /\ config = [tokens |-> << >>, ttl |-> 0]
           /\ enabled = m.enabled
           /\ serviceTokens = m.serviceTokens
           /\ tempTTL = m.tempTTL
           /\ temps = m.temps
           /\ usageCallbackAllowlist = m.usageCallbackAllowlist
    /\ now = StartTime
    /\ call = IdleCall
    /\ deliveries = NoDeliveries
    /\ mu = Unlocked
    /\ workers = NoWorkers
    /\ \E b \in BaseURLs : \E k \in APIKeys : \E t \in {0, 2} :
          probe = [kind |-> "provider", cfg |-> [baseURL |-> b, apiKey |-> k],
                   p |-> NewProvider(b, k, t), op |-> "", model |-> << >>,
                   sent |-> << >>, err |-> ""]

\* the application calls an operation of the provider
ProviderChat ==
    /\ \E model \in ModelNames : \E up \in Upstreams :
          LET r == ProviderCreateChatCompletion(probe.p, [Model |-> model], up)
          IN  probe' = [probe EXCEPT !.op = "chat.completions", !.model = model,
                                     !.sent = r.sent, !.err = r.err]
    /\ UNCHANGED <<mgrVars, now, call, deliveries, mu, workers>>

ProviderEmbeddings ==
    /\ \E model \in ModelNames : \E up \in Upstreams :
          LET r == ProviderCreateEmbeddings(probe.p, [Model |-> model], up)
          IN  probe' = [probe EXCEPT !.op = "embeddings", !.model = model,
                                     !.sent = r.sent, !.err = r.err]
    /\ UNCHANGED <<mgrVars, now, call, deliveries, mu, workers>>

NextProvider ==
    \/ ProviderChat
    \/ ProviderEmbeddings

SpecProvider == InitProvider /\ [][NextProvider]_vars

-----------------------------------------------------------------------------
(* llmgateway.Service: the routing of a model id to a provider.  A model id
   is a sequence of atoms in which "/" is the separator *)

\* strings.SplitN(s, "/", 2): the string itself when it holds no "/", else the
\* part before the first "/" and the rest
SplitN2(str) ==
    IF \A i \in DOMAIN str : str[i] # "/" THEN <<str>>
    ELSE LET i == CHOOSE j \in DOMAIN str :
                      str[j] = "/" /\ \A k \in 1..(j - 1) : str[k] # "/"
         IN  <<SubSeq(str, 1, i - 1), SubSeq(str, i + 1, Len(str))>>

\* the providers main() registers
ProviderNames == {<<"dashscope">>, <<"openrouter">>}

\* NewService: the catalog by id, a later entry replacing an earlier one with
\* the same id
NewService(providers, models) ==
    LET ids == {models[i].ID : i \in DOMAIN models}
        last(id) == CHOOSE i \in DOMAIN models :
                        /\ models[i].ID = id
                        /\ \A j \in DOMAIN models : models[j].ID = id => j <= i
    IN  [providers |-> providers, models |-> [id \in ids |-> models[last(id)]]]

NoProvider == << >>

\* the tail of resolveProviderAndUpstreamModel: provider and model from the id
resolveBySplit(svc, routedModel) ==
    LET parts == SplitN2(routedModel)
    IN  IF Len(parts) # 2 \/ parts[1] = << >> \/ parts[2] = << >>
        THEN [p |-> NoProvider, upstreamModel |-> << >>, err |-> "ErrInvalidArgument"]
        ELSE IF parts[1] \notin svc.providers
        THEN [p |-> NoProvider, upstreamModel |-> << >>, err |-> "ErrInvalidArgument"]
        ELSE [p |-> parts[1], upstreamModel |-> parts[2], err |-> "nil"]

\* a resolution that never looks at the catalog
resolveProviderAndUpstreamModel_noCatalog(svc, routedModel) ==
    resolveBySplit(svc, routedModel)

\* Service.resolveProviderAndUpstreamModel
resolveProviderAndUpstreamModel(svc, routedModel) ==
    IF routedModel \in DOMAIN svc.models
    THEN LET m == svc.models[routedModel]
         IN  IF m.Provider \notin svc.providers
             THEN [p |-> NoProvider, upstreamModel |-> << >>, err |-> "error"]
             ELSE IF m.UpstreamModel # << >>
             THEN [p |-> m.Provider, upstreamModel |-> m.UpstreamModel, err |-> "nil"]
             ELSE resolveBySplit(svc, routedModel)
    ELSE resolveBySplit(svc, routedModel)

\* Service.CreateChatCompletion and Service.CreateEmbeddings up to the call of
\* the provider: the error returned without a call, or the provider called
\* and the model name it is given
serviceCall(svc, req) ==
    IF req.Model = << >> THEN [called |-> << >>, err |-> "ErrInvalidArgument"]
    ELSE IF req.Items = 0 THEN [called |-> << >>, err |-> "ErrInvalidArgument"]
    ELSE LET r == resolveProviderAndUpstreamModel(svc, req.Model)
         IN  IF r.err # "nil" THEN [called |-> << >>, err |-> r.err]
             ELSE [called |-> <<[provider |-> r.p, model |-> r.upstreamModel]>>,
                   err    |-> "nil"]

QwenID   == <<"dashscope", "/", "qwen-turbo">>
GPT4oID  == <<"openrouter", "/", "openai", "/", "gpt-4o">>

ModelSpec(id, provider, upstream) ==
    [ID |-> id, Provider |-> provider, UpstreamModel |-> upstream]

\* llm.models of the configurations explored: none; the documented entry
\* with its override; an entry without override; an override under the
\* provider of the prefix; an entry whose provider is not the prefix of its
\* id; an id without "/"; entries whose provider is not registered or not set
Catalogs ==
    { << >>,
      <<ModelSpec(GPT4oID, <<"openrouter">>, <<"openai", "/", "gpt-4o">>)>>,
      <<ModelSpec(QwenID, <<"dashscope">>, << >>)>>,
      <<ModelSpec(QwenID, <<"dashscope">>, <<"qwen-plus">>)>>,
      <<ModelSpec(QwenID, <<"openrouter">>, <<"qwen-plus">>)>>,
      <<ModelSpec(<<"qwen">>, <<"dashscope">>, <<"qwen-turbo">>)>>,
      <<ModelSpec(QwenID, <<"azure">>, <<"qwen-plus">>)>>,
      <<ModelSpec(QwenID, << >>, << >>)>> }

\* the model ids callers ask for
RoutedModels ==
    {<< >>, QwenID, GPT4oID, <<"qwen">>, <<"/", "qwen">>, <<"dashscope", "/">>,
     <<"azure", "/", "gpt">>, <<"/">>}

InitRouting ==
    /\ LET m == NewManager(<< >>, 0)
       IN  /\ config = [tokens |-> << >>, ttl |-> 0]
           /\ enabled = m.enabled
           /\ serviceTokens = m.serviceTokens
           /\ tempTTL = m.tempTTL
           /\ temps = m.temps
           /\ usageCallbackAllowlist = m.usageCallbackAllowlist
    /\ now = StartTime
    /\ call = IdleCall
    /\ deliveries = NoDeliveries
    /\ mu = Unlocked
    /\ workers = NoWorkers
    /\ \E c \in Catalogs :
          probe = [kind |-> "routing", catalog |-> c, svc |-> NewService(ProviderNames, c),
                   op |-> "", model |-> << >>, items |-> 0, called |-> << >>,
                   code |-> ""]

\* Service.CreateChatCompletion with a model id and zero or one message
RouteChat ==
    /\ probe.kind = "routing"
    /\ \E model \in RoutedModels : \E n \in {0, 1} :
          LET r == serviceCall(probe.svc, [Model |-> model, Items |-> n])
          IN  probe' = [probe EXCEPT !.op = "chat", !.model = model, !.items = n,
                                     !.called = r.called, !.code = toStatusErr(r.err)]
    /\ UNCHANGED <<mgrVars, now, call, deliveries, mu, workers>>

\* Service.CreateEmbeddings with a model id and zero or one input
RouteEmbeddings ==
    /\ probe.kind = "routing"
    /\ \E model \in RoutedModels : \E n \in {0, 1} :
          LET r == serviceCall(probe.svc, [Model |-> model, Items |-> n])
          IN  probe' = [probe EXCEPT !.op = "embeddings", !.model = model, !.items = n,
                                     !.called = r.called, !.code = toStatusErr(r.err)]
    /\ UNCHANGED <<mgrVars, now, call, deliveries, mu, workers>>

NextRouting ==
    \/ RouteChat
    \/ RouteEmbeddings

SpecRouting == InitRouting /\ [][NextRouting]_vars

-----------------------------------------------------------------------------
(* A streaming call that stays open: its handler reads the context of its
   stream now and then while time passes and other callers replace their
   allowlists *)

StreamCallMethods == {IssueTemporaryCredentialsMethod, CreateChatCompletionStreamMethod}

\* a caller invokes the issuance or opens a stream
StreamCall ==
    /\ CanArrive
    /\ \E fm \in StreamCallMethods : \E md \in CallbackMetadata(fm, now, temps) :
          /\ WithinBound(fm, md)
          /\ call' = [IdleCall EXCEPT !.pc = "received", !.via = "grpc",
                                      !.fullMethod = fm, !.md = md]
    /\ UNCHANGED <<mgrVars, now, probe, deliveries, mu, workers>>

\* the stream handler reads ss.Context(): the identity it finds, when, and the
\* allowlist at that time
ContextRead ==
    /\ call.pc = "handler"
    /\ call.fullMethod \in StreamMethods
    /\ Len(call.seen) < MaxObserved
    /\ LET ctx == Context([ctx |-> call.ctx])
       IN  call' = [call EXCEPT !.seen = Append(@, [subject |-> SubjectFromContext(ctx),
                                                    method  |-> MethodFromContext(ctx),
                                                    at      |-> now,
                                                    allow   |-> usageCallbackAllowlist])]
    /\ UNCHANGED <<mgrVars, now, probe, deliveries, mu, workers>>

\* while the stream is open another caller's SetUsageCallback replaces the
\* allowlist of a subject
OtherRegisters ==
    /\ call.pc = "handler"
    /\ call.fullMethod \in StreamMethods
    /\ \E sb \in {<<"alice">>, <<"service">>} : \E urls \in {<< >>, <<URL1>>} :
          LET r == SetUsageCallbackAllowlist(enabled, usageCallbackAllowlist, sb, urls)
          IN  /\ r.err = OK
              /\ r.allowlist # usageCallbackAllowlist
              /\ usageCallbackAllowlist' = r.allowlist
    /\ UNCHANGED <<config, enabled, serviceTokens, tempTTL, temps, now, call, probe,
                   deliveries, mu, workers>>

NextStream ==
    \/ Tick
    \/ StreamCall
    \/ UnaryServerInterceptor
    \/ StreamServerInterceptor
    \/ IssueTemporaryCredentialsHandler
    \/ ContextRead
    \/ OtherRegisters
    \/ CreateChatCompletionStreamHandler
    \/ Return

SpecStream == Init /\ [][NextStream]_vars

-----------------------------------------------------------------------------
(* Concurrent callers of the Manager: NIssuers goroutines in
   IssueTemporaryCredentials and MVerifiers goroutines in
   AuthenticateSignature, each verifier with an access key of its own.  The
   steps of a goroutine are its accesses to Manager.mu and Manager.temps; a
   write to the map is a load and a store, made one by the lock around it. *)

Issuers   == 1..NIssuers
Verifiers == (NIssuers + 1)..(NIssuers + MVerifiers)

\* a mutex that excludes nobody
canLock_noExclusion(m) == TRUE

\* sync.RWMutex: Lock waits for the writer and the readers, RLock for the writer
canLock(m) == m.writer = 0 /\ m.readers = {}

canRLock(m) == m.writer = 0

\* an RUnlock that leaves the reader registered
rUnlock_keeps(m, w) == m

\* m.mu.RUnlock()
rUnlock(m, w) == [m EXCEPT !.readers = @ \ {w}]

\* the store after n issuances in sequence, to TokA and TokB in turn
RECURSIVE PreIssued(_, _)
PreIssued(m, n) ==
    IF n = 0 THEN m.temps
    ELSE IssueTemporaryCredentials(m.enabled, m.serviceTokens, m.tempTTL,
                                   PreIssued(m, n - 1),
                                   IF n % 2 = 1 THEN TokA ELSE TokB, StartTime).temps

\* the access key verifier w signs with
KeyOf(w) == randHex(w - NIssuers)

IdleIssuer ==
    [kind |-> "issue", pc |-> "start", token |-> << >>, subject |-> << >>,
     akid |-> << >>, secret |-> << >>, exp |-> 0, loaded |-> EmptyMap, err |-> ""]

IdleVerifier ==
    [kind |-> "verify", pc |-> "start", in |-> << >>, found |-> FALSE,
     rec |-> << >>, ok |-> FALSE]

\* the Signing Input of a native call signed with the key and a secret
signedInput(k, sk, t) ==
    LET in == [AccessKeyID |-> k, Signature |-> << >>, Timestamp |-> t, Nonce |-> Nonce1,
               CallbackURL |-> << >>, HTTPMethod |-> << >>, HTTPPath |-> << >>,
               HTTPQuery |-> << >>, BodySHA256 |-> << >>,
               GRPCFullMethod |-> CreateChatCompletionMethod]
    IN  [in EXCEPT !.Signature = hmacSHA256Hex(sk, canonicalString(in))]

InitConc ==
    /\ \E cfg \in Configs :
          LET m == NewManager(cfg.tokens, cfg.ttl)
          IN  /\ m.enabled
              /\ config = cfg
              /\ enabled = m.enabled
              /\ serviceTokens = m.serviceTokens
              /\ tempTTL = m.tempTTL
              /\ temps = PreIssued(m, MVerifiers)
              /\ usageCallbackAllowlist = m.usageCallbackAllowlist
    /\ now = StartTime
    /\ call = IdleCall
    /\ probe = NoProbe
    /\ deliveries = NoDeliveries
    /\ mu = Unlocked
    /\ workers = [drawn |-> MVerifiers,
                  proc  |-> [w \in Issuers \cup Verifiers |->
                               IF w \in Issuers THEN IdleIssuer ELSE IdleVerifier]]

concVars == <<config, enabled, serviceTokens, tempTTL, usageCallbackAllowlist, now, call,
              probe, deliveries>>

\* IssueTemporaryCredentials up to the lock: the token is authenticated, the
\* key and the secret are drawn, the expiry is computed
IssueBegin(w) ==
    /\ w \in Issuers
    /\ workers.proc[w].pc = "start"
    /\ \E tok \in {TokA, TokB} :
          LET a == AuthenticateServiceToken(enabled, serviceTokens, tok)
              n == workers.drawn + 1
          IN  workers' = [workers EXCEPT
                             !.drawn = n,
                             !.proc[w] = [@ EXCEPT !.pc = "ready",
                                                   !.token = tok,
                                                   !.subject = a.subject,
                                                   !.akid = randHex(n),
                                                   !.secret = randB64(n),
                                                   !.exp = now + tempTTL]]
    /\ UNCHANGED <<concVars, temps, mu>>

\* m.mu.Lock()
IssueLock(w) ==
    /\ w \in Issuers
    /\ workers.proc[w].pc = "ready"
    /\ canLock(mu)
    /\ mu' = [mu EXCEPT !.writer = w]
    /\ workers' = [workers EXCEPT !.proc[w].pc = "locked"]
    /\ UNCHANGED <<concVars, temps>>

\* m.temps[akid] = ...: the map is read
IssueLoad(w) ==
    /\ w \in Issuers
    /\ workers.proc[w].pc = "locked"
    /\ workers' = [workers EXCEPT !.proc[w].pc = "loaded", !.proc[w].loaded = temps]
    /\ UNCHANGED <<concVars, temps, mu>>

\* m.temps[akid] = ...: the map with the record is written
IssueStore(w) ==
    /\ w \in Issuers
    /\ workers.proc[w].pc = "loaded"
    /\ LET p == workers.proc[w]
       IN  temps' = (p.akid :> [secret |-> p.secret, expiresAt |-> p.exp,
                                subject |-> p.subject]) @@ p.loaded
    /\ workers' = [workers EXCEPT !.proc[w].pc = "stored", !.proc[w].loaded = EmptyMap]
    /\ UNCHANGED <<concVars, mu>>

\* m.mu.Unlock() and the return of the credentials
IssueUnlock(w) ==
    /\ w \in Issuers
    /\ workers.proc[w].pc = "stored"
    /\ mu' = [mu EXCEPT !.writer = 0]
    /\ workers' = [workers EXCEPT !.proc[w].pc = "done", !.proc[w].err = OK]
    /\ UNCHANGED <<concVars, temps>>

\* AuthenticateSignature up to m.mu.RLock(): a caller presents a Signing Input
\* for its key, signed with the key's secret or a foreign one; the required
\* fields and the skew are tested
VerifyRLock(w) ==
    /\ w \in Verifiers
    /\ workers.proc[w].pc = "start"
    /\ canRLock(mu)
    /\ \E sk \in {randB64(w - NIssuers), ForeignSecret} :
          LET in == signedInput(KeyOf(w), sk, now)
          IN  /\ ~outsideSkew(in.Timestamp, now)
              /\ workers' = [workers EXCEPT !.proc[w].pc = "rlocked", !.proc[w].in = in]
    /\ mu' = [mu EXCEPT !.readers = @ \cup {w}]
    /\ UNCHANGED <<concVars, temps>>

\* rec, ok := m.temps[in.AccessKeyID]
VerifyRead(w) ==
    /\ w \in Verifiers
    /\ workers.proc[w].pc = "rlocked"
    /\ LET k == workers.proc[w].in.AccessKeyID
       IN  workers' = [workers EXCEPT
                          !.proc[w].pc = "read",
                          !.proc[w].found = k \in DOMAIN temps,
                          !.proc[w].rec = IF k \in DOMAIN temps THEN <<temps[k]>> ELSE << >>]
    /\ UNCHANGED <<concVars, temps, mu>>

\* m.mu.RUnlock()
VerifyRUnlock(w) ==
    /\ w \in Verifiers
    /\ workers.proc[w].pc = "read"
    /\ mu' = rUnlock(mu, w)
    /\ workers' = [workers EXCEPT !.proc[w].pc = "unlocked"]
    /\ UNCHANGED <<concVars, temps>>

\* the expiry test, the HMAC of the canonical string and the comparison, on
\* the copy of the record
VerifyCompare(w) ==
    /\ w \in Verifiers
    /\ workers.proc[w].pc = "unlocked"
    /\ LET p == workers.proc[w]
           ok == /\ p.found
                 /\ ~expired(p.rec[1], now)
                 /\ signatureMatches(hmacSHA256Hex(p.rec[1].secret, canonicalString(p.in)),
                                     p.in.Signature)
       IN  workers' = [workers EXCEPT !.proc[w].pc = "done", !.proc[w].ok = ok]
    /\ UNCHANGED <<concVars, temps, mu>>

NextConc ==
    \E w \in Issuers \cup Verifiers :
        \/ IssueBegin(w)
        \/ IssueLock(w)
        \/ IssueLoad(w)
        \/ IssueStore(w)
        \/ IssueUnlock(w)
        \/ VerifyRLock(w)
        \/ VerifyRead(w)
        \/ VerifyRUnlock(w)
        \/ VerifyCompare(w)

SpecConc == InitConc /\ [][NextConc]_vars

-----------------------------------------------------------------------------
(* The same goroutines beside a caller of SetUsageCallbackAllowlist and a
   business call, which waits for the provider, asks IsUsageCallbackAllowed
   and sends the usage notification *)

Registrars == {NIssuers + MVerifiers + 1}
Callers    == {NIssuers + MVerifiers + 2}
Listers    == {NIssuers + MVerifiers + 3}

\* the goroutines of this specification: one issuance, the verifications, one
\* registration, one business call and one listing
LockWorkers == {1} \cup Verifiers \cup Registrars \cup Callers \cup Listers

IdleRegistrar ==
    [kind |-> "register", pc |-> "start", subject |-> << >>, urls |-> << >>, err |-> ""]

IdleCaller ==
    [kind |-> "business", pc |-> "start", subject |-> << >>, url |-> << >>,
     allowed |-> FALSE]

IdleLister ==
    [kind |-> "list", pc |-> "start", subject |-> << >>, out |-> << >>]

InitLocks ==
    /\ \E cfg \in Configs :
          LET m == NewManager(cfg.tokens, cfg.ttl)
          IN  /\ m.enabled
              /\ config = cfg
              /\ enabled = m.enabled
              /\ serviceTokens = m.serviceTokens
              /\ tempTTL = m.tempTTL
              /\ temps = PreIssued(m, MVerifiers)
              /\ usageCallbackAllowlist = (<<"alice">> :> {URL1})
    /\ now = StartTime
    /\ call = IdleCall
    /\ probe = NoProbe
    /\ deliveries = NoDeliveries
    /\ mu = Unlocked
    /\ workers = [drawn |-> MVerifiers,
                  proc  |-> [w \in LockWorkers |->
                               IF w \in Issuers THEN IdleIssuer
                               ELSE IF w \in Verifiers THEN IdleVerifier
                               ELSE IF w \in Registrars THEN IdleRegistrar
                               ELSE IF w \in Callers THEN IdleCaller
                               ELSE IdleLister]]

lockVars == <<config, enabled, serviceTokens, tempTTL, temps, now, call, probe, deliveries>>

\* SetUsageCallbackAllowlist up to the lock: the tests of the manager and the
\* subject and the validation of the list; an error returns here
RegisterBegin(w) ==
    /\ w \in Registrars
    /\ workers.proc[w].pc = "start"
    /\ \E sb \in {<< >>, <<"alice">>} : \E urls \in {<< >>, <<URL2>>, <<URL2, URLFtp>>} :
          LET r == SetUsageCallbackAllowlist(enabled, usageCallbackAllowlist, sb, urls)
          IN  workers' = [workers EXCEPT
                  !.proc[w] = [@ EXCEPT !.pc = IF r.err # OK THEN "done" ELSE "validated",
                                        !.subject = sb, !.urls = urls, !.err = r.err]]
    /\ UNCHANGED <<lockVars, usageCallbackAllowlist, mu>>

\* m.mu.Lock(); defer m.mu.Unlock()
RegisterLock(w) ==
    /\ w \in Registrars
    /\ workers.proc[w].pc = "validated"
    /\ canLock(mu)
    /\ mu' = [mu EXCEPT !.writer = w]
    /\ workers' = [workers EXCEPT !.proc[w].pc = "locked"]
    /\ UNCHANGED <<lockVars, usageCallbackAllowlist>>

\* delete(m.usageCallbackAllowlist, subject) or the assignment of the set
RegisterWrite(w) ==
    /\ w \in Registrars
    /\ workers.proc[w].pc = "locked"
    /\ LET p == workers.proc[w]
       IN  usageCallbackAllowlist' =
               SetUsageCallbackAllowlist(enabled, usageCallbackAllowlist,
                                         p.subject, p.urls).allowlist
    /\ workers' = [workers EXCEPT !.proc[w].pc = "written"]
    /\ UNCHANGED <<lockVars, mu>>

\* the deferred m.mu.Unlock() as the function returns
RegisterUnlock(w) ==
    /\ w \in Registrars
    /\ workers.proc[w].pc = "written"
    /\ mu' = [mu EXCEPT !.writer = 0]
    /\ workers' = [workers EXCEPT !.proc[w].pc = "done"]
    /\ UNCHANGED <<lockVars, usageCallbackAllowlist>>

\* a business call of a subject, with a declared callback URL or none, sends
\* its request to the provider and waits
CallerAsksProvider(w) ==
    /\ w \in Callers
    /\ workers.proc[w].pc = "start"
    /\ \E sb \in {<<"alice">>, <<"service">>} : \E u \in {<< >>, URL1, URL2} :
          workers' = [workers EXCEPT !.proc[w].pc = "provider",
                                     !.proc[w].subject = sb, !.proc[w].url = u]
    /\ UNCHANGED <<lockVars, usageCallbackAllowlist, mu>>

\* the provider has answered: maybeSendUsageCallback returns for a call
\* without a declared URL, and asks IsUsageCallbackAllowed otherwise
ProviderAnswers(w) ==
    /\ w \in Callers
    /\ workers.proc[w].pc = "provider"
    /\ workers' = [workers EXCEPT
                      !.proc[w].pc = IF workers.proc[w].url = << >> THEN "done"
                                     ELSE "asking"]
    /\ UNCHANGED <<lockVars, usageCallbackAllowlist, mu>>

\* IsUsageCallbackAllowed: m.mu.RLock(); defer m.mu.RUnlock()
AllowedRLock(w) ==
    /\ w \in Callers
    /\ workers.proc[w].pc = "asking"
    /\ canRLock(mu)
    /\ mu' = [mu EXCEPT !.readers = @ \cup {w}]
    /\ workers' = [workers EXCEPT !.proc[w].pc = "rlocked"]
    /\ UNCHANGED <<lockVars, usageCallbackAllowlist>>

\* set, ok := m.usageCallbackAllowlist[subject]; _, ok = set[url]
AllowedLookup(w) ==
    /\ w \in Callers
    /\ workers.proc[w].pc = "rlocked"
    /\ LET p == workers.proc[w]
       IN  workers' = [workers EXCEPT
                          !.proc[w].pc = "looked",
                          !.proc[w].allowed =
                              IsUsageCallbackAllowed(enabled, usageCallbackAllowlist,
                                                     p.subject, p.url)]
    /\ UNCHANGED <<lockVars, usageCallbackAllowlist, mu>>

\* the deferred m.mu.RUnlock(); an allowed notification goes to its goroutine
AllowedRUnlock(w) ==
    /\ w \in Callers
    /\ workers.proc[w].pc = "looked"
    /\ mu' = rUnlock(mu, w)
    /\ workers' = [workers EXCEPT
                      !.proc[w].pc = IF workers.proc[w].allowed THEN "sending" ELSE "done"]
    /\ UNCHANGED <<lockVars, usageCallbackAllowlist>>

\* Sender.Send returns
SendDone(w) ==
    /\ w \in Callers
    /\ workers.proc[w].pc = "sending"
    /\ workers' = [workers EXCEPT !.proc[w].pc = "done"]
    /\ UNCHANGED <<lockVars, usageCallbackAllowlist, mu>>

\* UsageCallbackAllowlist up to the lock: a listing without a subject returns
\* nil here
ListBegin(w) ==
    /\ w \in Listers
    /\ workers.proc[w].pc = "start"
    /\ \E sb \in {<< >>, <<"alice">>} :
          workers' = [workers EXCEPT
                         !.proc[w].pc = IF ~enabled \/ sb = << >> THEN "done" ELSE "asking",
                         !.proc[w].subject = sb]
    /\ UNCHANGED <<lockVars, usageCallbackAllowlist, mu>>

\* UsageCallbackAllowlist: m.mu.RLock(); defer m.mu.RUnlock()
ListRLock(w) ==
    /\ w \in Listers
    /\ workers.proc[w].pc = "asking"
    /\ canRLock(mu)
    /\ mu' = [mu EXCEPT !.readers = @ \cup {w}]
    /\ workers' = [workers EXCEPT !.proc[w].pc = "rlocked"]
    /\ UNCHANGED <<lockVars, usageCallbackAllowlist>>

\* the copy of the subject's set, sorted
ListCopy(w) ==
    /\ w \in Listers
    /\ workers.proc[w].pc = "rlocked"
    /\ workers' = [workers EXCEPT
                      !.proc[w].pc = "looked",
                      !.proc[w].out = UsageCallbackAllowlist(enabled, usageCallbackAllowlist,
                                                             workers.proc[w].subject)]
    /\ UNCHANGED <<lockVars, usageCallbackAllowlist, mu>>

\* the deferred m.mu.RUnlock()
ListRUnlock(w) ==
    /\ w \in Listers
    /\ workers.proc[w].pc = "looked"
    /\ mu' = rUnlock(mu, w)
    /\ workers' = [workers EXCEPT !.proc[w].pc = "done"]
    /\ UNCHANGED <<lockVars, usageCallbackAllowlist>>

NextLocks ==
    \E w \in LockWorkers :
        \/ IssueBegin(w)
        \/ IssueLock(w)
        \/ IssueLoad(w)
        \/ IssueStore(w)
        \/ IssueUnlock(w)
        \/ VerifyRLock(w)
        \/ VerifyRead(w)
        \/ VerifyRUnlock(w)
        \/ VerifyCompare(w)
        \/ RegisterBegin(w)
        \/ RegisterLock(w)
        \/ RegisterWrite(w)
        \/ RegisterUnlock(w)
        \/ CallerAsksProvider(w)
        \/ ProviderAnswers(w)
        \/ AllowedRLock(w)
        \/ AllowedLookup(w)
        \/ AllowedRUnlock(w)
        \/ SendDone(w)
        \/ ListBegin(w)
        \/ ListRLock(w)
        \/ ListCopy(w)
        \/ ListRUnlock(w)

SpecLocks == InitLocks /\ [][NextLocks]_vars

-----------------------------------------------------------------------------
(* canonicalString and AuthenticateSignature applied to pairs of Signing
   Inputs, one of each branch, over a manager that holds one credential *)

\* the manager after one issuance to TokA at StartTime
IssuedOnce(cfg) ==
    LET m == NewManager(cfg.tokens, cfg.ttl)
    IN  IssueTemporaryCredentials(m.enabled, m.serviceTokens, m.tempTTL, m.temps,
                                  TokA, StartTime).temps

\* Signing Inputs canonicalString takes by its HTTP branch
HTTPBranchInputs(akid, t) ==
    { [AccessKeyID |-> akid, Signature |-> << >>, Timestamp |-> t, Nonce |-> Nonce1,
       CallbackURL |-> cb, HTTPMethod |-> m, HTTPPath |-> p, HTTPQuery |-> q,
       BodySHA256 |-> b, GRPCFullMethod |-> fm] :
        cb \in {<< >>, URL1},
        m  \in {<<"POST">>, <<"GRPC">>},
        p  \in {ChatPath, CreateChatCompletionMethod},
        q  \in {<< >>, <<"q">>},
        b  \in {sha256Hex(EmptyBody), sha256Hex(Body1)},
        fm \in {CreateChatCompletionMethod} }

\* Signing Inputs canonicalString takes by its gRPC branch; a field may hold
\* a line feed
RPCBranchInputs(akid, t) ==
    { [AccessKeyID |-> akid, Signature |-> << >>, Timestamp |-> t, Nonce |-> Nonce1,
       CallbackURL |-> cb, HTTPMethod |-> m, HTTPPath |-> << >>, HTTPQuery |-> << >>,
       BodySHA256 |-> << >>, GRPCFullMethod |-> fm] :
        cb \in {<< >>, URL1, sha256Hex(Body1) \o <<LF>> \o URL1},
        m  \in {<< >>, <<"POST">>},
        fm \in {CreateChatCompletionMethod, IssueTemporaryCredentialsMethod} }

InitCanon ==
    /\ \E cfg \in Configs :
          LET m == NewManager(cfg.tokens, cfg.ttl)
          IN  /\ m.enabled
              /\ config = cfg
              /\ enabled = m.enabled
              /\ serviceTokens = m.serviceTokens
              /\ tempTTL = m.tempTTL
              /\ temps = IssuedOnce(cfg)
              /\ usageCallbackAllowlist = m.usageCallbackAllowlist
    /\ now = StartTime
    /\ call = IdleCall
    /\ deliveries = NoDeliveries
    /\ mu = Unlocked
    /\ workers = NoWorkers
    /\ \E k \in DOMAIN temps :
          \E h \in HTTPBranchInputs(k, now) : \E g \in RPCBranchInputs(k, now) :
          \E signer \in {"http", "grpc"} :
              probe = [kind |-> "drawn", http |-> h, grpc |-> g, signer |-> signer,
                       sig |-> << >>, okHTTP |-> FALSE, okRPC |-> FALSE]

\* the holder of the credential signs one of the two inputs
SignCanonical ==
    /\ probe.kind = "drawn"
    /\ LET in == IF probe.signer = "http" THEN probe.http ELSE probe.grpc
       IN  probe' = [probe EXCEPT
                        !.kind = "signed",
                        !.sig = hmacSHA256Hex(temps[in.AccessKeyID].secret,
                                              canonicalString(in))]
    /\ UNCHANGED <<mgrVars, now, call, deliveries, mu, workers>>

\* AuthenticateSignature on each of the two inputs with that signature
VerifyBoth ==
    /\ probe.kind = "signed"
    /\ probe' = [probe EXCEPT
                    !.kind = "verified",
                    !.okHTTP = AuthenticateSignature(enabled, temps,
                                   [probe.http EXCEPT !.Signature = probe.sig], now).ok,
                    !.okRPC = AuthenticateSignature(enabled, temps,
                                   [probe.grpc EXCEPT !.Signature = probe.sig], now).ok]
    /\ UNCHANGED <<mgrVars, now, call, deliveries, mu, workers>>

NextCanon ==
    \/ SignCanonical
    \/ VerifyBoth

SpecCanon == InitCanon /\ [][NextCanon]_vars

-----------------------------------------------------------------------------
(* Issuance under configurations whose auth.temp_ttl is negative, zero or
   positive: callers of Manager.IssueTemporaryCredentials present tokens while
   time passes *)

\* the token list of the first configuration with each TTL
TTLConfigs ==
    { [tokens |-> << [Name |-> <<"alice">>, Token |-> TokA],
                     [Name |-> << >>,       Token |-> TokB] >>,
       ttl    |-> ttl] : ttl \in {0 - 1, 0, 2} }

InitIssue ==
    /\ \E cfg \in TTLConfigs :
          LET m == NewManager(cfg.tokens, cfg.ttl)
          IN  /\ config = cfg
              /\ enabled = m.enabled
              /\ serviceTokens = m.serviceTokens
              /\ tempTTL = m.tempTTL
              /\ temps = m.temps
              /\ usageCallbackAllowlist = m.usageCallbackAllowlist
    /\ now = StartTime
    /\ call = IdleCall
    /\ deliveries = NoDeliveries
    /\ mu = Unlocked
    /\ workers = NoWorkers
    /\ probe = NoProbe

\* m.IssueTemporaryCredentials(ctx, serviceToken)
IssueCall ==
    /\ Cardinality(DOMAIN temps) < MaxIssued + 1
    /\ \E tok \in {<< >>, TokA, TokB, BadToken} :
          LET r == IssueTemporaryCredentials(enabled, serviceTokens, tempTTL, temps, tok, now)
          IN  /\ temps' = r.temps
              /\ probe' = [kind |-> "issuance", token |-> tok, at |-> now,
                           err |-> r.err, creds |-> r.creds]
    /\ UNCHANGED <<config, enabled, serviceTokens, tempTTL, usageCallbackAllowlist, now, call,
                   deliveries, mu, workers>>

\* the caller has its answer
IssueSeen ==
    /\ probe.kind = "issuance"
    /\ probe' = NoProbe
    /\ UNCHANGED <<mgrVars, now, call, deliveries, mu, workers>>

NextIssue ==
    \/ Tick
    \/ IssueCall
    \/ IssueSeen

SpecIssue == InitIssue /\ [][NextIssue]_vars

-----------------------------------------------------------------------------
(* Path and query of a signed HTTP request: the holder of a credential signs
   one request of GET /v1/models/{id}, and the signature is presented with
   another request target *)

\* the path of a request target as the server's URL holds it: the escape of
\* "?" decoded
RECURSIVE unescapePath(_)
unescapePath(str) ==
    IF str = << >> THEN << >>
    ELSE <<IF Head(str) = "%3F" THEN "?" ELSE Head(str)>> \o unescapePath(Tail(str))

\* r.URL of a request target: Path is the decoded part before the first "?",
\* RawQuery the part after it, as written
requestURL(target) ==
    IF \A i \in DOMAIN target : target[i] # "?"
    THEN [Path |-> unescapePath(target), RawQuery |-> << >>]
    ELSE LET i == CHOOSE j \in DOMAIN target :
                      target[j] = "?" /\ \A k \in 1..(j - 1) : target[k] # "?"
         IN  [Path     |-> unescapePath(SubSeq(target, 1, i - 1)),
              RawQuery |-> SubSeq(target, i + 1, Len(target))]

ModelsPrefix == <<"/", "v1", "/", "models", "/">>

\* the request targets explored
Targets ==
    { ModelsPrefix \o <<"x">>,
      ModelsPrefix \o <<"x", "?", "y">>,
      ModelsPrefix \o <<"x", "%3F", "y">>,
      ModelsPrefix \o <<"x", "?">>,
      ModelsPrefix \o <<"x", "%3F">>,
      ModelsPrefix \o <<"x", "?", "y", "?", "z">>,
      ModelsPrefix \o <<"x", "%3F", "y", "?", "z">>,
      ModelsPrefix \o <<"x", "?", "y", "%3F", "z">>,
      ModelsPrefix \o <<"z">>,
      ModelsPrefix \o <<"z", "?", "y">>,
      ModelsPrefix \o <<"x", "y">> }

\* the GET request of a target, with the signing headers of key k
TargetRequest(target, k, t) ==
    LET u == requestURL(target)
    IN  [Method |-> <<"GET">>, Path |-> u.Path, RawQuery |-> u.RawQuery,
         Header |-> [EmptyMD EXCEPT ![mdAccessKeyID] = val(k),
                                    ![mdTimestamp] = val(FormatInt(t)),
                                    ![mdNonce] = val(Nonce1)],
         Body |-> EmptyBody]

InitResource ==
    /\ \E cfg \in Configs :
          LET m == NewManager(cfg.tokens, cfg.ttl)
          IN  /\ m.enabled
              /\ config = cfg
              /\ enabled = m.enabled
              /\ serviceTokens = m.serviceTokens
              /\ tempTTL = m.tempTTL
              /\ temps = IssuedOnce(cfg)
              /\ usageCallbackAllowlist = m.usageCallbackAllowlist
    /\ now = StartTime
    /\ call = IdleCall
    /\ deliveries = NoDeliveries
    /\ mu = Unlocked
    /\ workers = NoWorkers
    /\ \E t1 \in Targets : \E t2 \in Targets :
          probe = [kind |-> "targets", signed |-> t1, presented |-> t2, sig |-> << >>,
                   in1 |-> << >>, in2 |-> << >>, fullMethod |-> << >>, ok |-> FALSE]

\* the holder signs the request of the first target as the gateway will
\* forward it
SignTarget ==
    /\ probe.kind = "targets"
    /\ \E k \in DOMAIN temps :
          LET fwd == gatewayHandler(TargetRequest(probe.signed, k, now))
              in  == signatureInput(fwd.md, fwd.fullMethod)
          IN  /\ fwd.status = "Forwarded"
              /\ probe' = [probe EXCEPT !.kind = "signedTarget", !.in1 = in,
                               !.sig = hmacSHA256Hex(temps[k].secret, canonicalString(in))]
    /\ UNCHANGED <<mgrVars, now, call, deliveries, mu, workers>>

\* the request of the second target arrives with that signature: the gateway
\* stamps its context and the interceptor decides
PresentTarget ==
    /\ probe.kind = "signedTarget"
    /\ LET r0  == TargetRequest(probe.presented, probe.in1.AccessKeyID, now)
           r   == [r0 EXCEPT !.Header = withSignature(r0.Header, probe.sig)]
           fwd == gatewayHandler(r)
           in  == signatureInput(fwd.md, fwd.fullMethod)
       IN  /\ fwd.status = "Forwarded"
           /\ probe' = [probe EXCEPT
                  !.kind = "presented", !.in2 = in, !.fullMethod = fwd.fullMethod,
                  !.ok = intercept(enabled, serviceTokens, temps, fwd.md, fwd.fullMethod,
                                   now).proceed]
    /\ UNCHANGED <<mgrVars, now, call, deliveries, mu, workers>>

NextResource ==
    \/ SignTarget
    \/ PresentTarget

SpecResource == InitResource /\ [][NextResource]_vars

-----------------------------------------------------------------------------
(* The required fields of a Signing Input: metadata in which a field is
   absent, empty or no number, presented to a manager whose store holds, or
   does not hold, a record under the presented key *)

\* the texts callers send as x-timestamp at time t
TimestampTexts(t) ==
    {<< >>, <<"0">>, <<"0", "0">>, <<"-">>, <<"-", "0">>, <<"1", "x">>, <<"+", "1">>,
     <<"1", "-", "0">>, <<" ", "1">>, FormatInt(t), FormatInt(t - SkewMinutes)}

\* a store that holds one record under key k, the empty key included
StoreWith(k, t) ==
    (k :> [secret |-> randB64(1), expiresAt |-> t + 1, subject |-> <<"alice">>])

\* the metadata explored: a field is absent, present and empty, or set; the
\* signature is absent, no hex string, or the HMAC under the stored secret
\* of the canonical string the server will build
FieldMetadata(t) ==
    LET base(k, ts, nonce) == [EmptyMD EXCEPT ![mdAccessKeyID] = k,
                                              ![mdTimestamp] = val(ts),
                                              ![mdNonce] = nonce]
        signed(md) == withSignature(md, hmacSHA256Hex(randB64(1),
                          canonicalString(signatureInput(md, CreateChatCompletionMethod))))
    IN  UNION { {base(k, ts, n), withSignature(base(k, ts, n), NotHex), signed(base(k, ts, n))} :
                  k  \in {<< >>, << << >> >>, <<randHex(1)>>},
                  ts \in TimestampTexts(t),
                  n  \in {<< >>, << << >> >>, <<Nonce1>>} }

InitFields ==
    /\ \E cfg \in Configs :
          LET m == NewManager(cfg.tokens, cfg.ttl)
          IN  /\ m.enabled
              /\ config = cfg
              /\ enabled = m.enabled
              /\ serviceTokens = m.serviceTokens
              /\ tempTTL = m.tempTTL
              /\ usageCallbackAllowlist = m.usageCallbackAllowlist
    /\ now \in {0, StartTime}
    /\ call = IdleCall
    /\ deliveries = NoDeliveries
    /\ mu = Unlocked
    /\ workers = NoWorkers
    /\ \E md \in FieldMetadata(now) :
          /\ temps \in {EmptyMap, StoreWith(first(md[mdAccessKeyID]), now)}
          /\ probe = [kind |-> "fields", md |-> md, in |-> << >>, res |-> Fail]

\* authenticate() assembles the SignatureInput from the metadata
AssembleInput ==
    /\ probe.kind = "fields"
    /\ probe' = [probe EXCEPT !.kind = "assembled",
                              !.in = signatureInput(probe.md, CreateChatCompletionMethod)]
    /\ UNCHANGED <<mgrVars, now, call, deliveries, mu, workers>>

\* mgr.AuthenticateSignature(ctx, in, time.Now())
VerifyFields ==
    /\ probe.kind = "assembled"
    /\ probe' = [probe EXCEPT !.kind = "answered",
                              !.res = AuthenticateSignature(enabled, temps, probe.in, now)]
    /\ UNCHANGED <<mgrVars, now, call, deliveries, mu, workers>>

NextFields ==
    \/ AssembleInput
    \/ VerifyFields

SpecFields == InitFields /\ [][NextFields]_vars

----------------------------------------------------------------------------
(* Properties *)

\* the call in flight has been decided by an interceptor with auth enabled
Decided == enabled /\ call.pc \in {"handler", "rejected", "done"}

PresentedToken == first(call.md[mdServiceToken])

\* the SignatureInput the interceptor assembles for the call in flight
CallInput == signatureInput(call.md, call.fullMethod)

\* the entries of the configuration whose token is tok
ConfiguredEntries(tok) == {i \in DOMAIN config.tokens : config.tokens[i].Token = tok}

\* the name configured for tok (the last entry wins), "service" if it has none
ConfiguredSubject(tok) ==
    LET i == CHOOSE j \in ConfiguredEntries(tok) : \A k \in ConfiguredEntries(tok) : k <= j
    IN  IF config.tokens[i].Name = << >> THEN <<"service">> ELSE config.tokens[i].Name

IsConfigured(tok) == tok # << >> /\ ConfiguredEntries(tok) # {}

PresentableTokens ==
    {<< >>, TokA, TokB, BadToken, <<"alice">>, <<"tokA", "x">>, <<"tok">>, <<"service">>}

\* C1: with auth enabled, AuthenticateServiceToken succeeds exactly for a
\* token equal to the token of a configured entry, the subject is the name
\* configured for it or "service" when that name is empty, and the empty
\* token never succeeds; a call that presents a token is decided accordingly.
C1_StaticTokenExact ==
    enabled =>
        /\ \A tok \in PresentableTokens :
              LET r == AuthenticateServiceToken(enabled, serviceTokens, tok)
              IN  /\ r.ok <=> IsConfigured(tok)
                  /\ r.ok => r.subject = ConfiguredSubject(tok)
        /\ (Decided /\ PresentedToken # << >>) =>
              /\ (call.auth.err = OK) <=> IsConfigured(PresentedToken)
              /\ (call.auth.err = OK) => call.auth.subject = ConfiguredSubject(PresentedToken)

\* a call presenting the unnamed token was accepted as "service"
C1_Witness ==
    /\ Decided
    /\ PresentedToken = TokB
    /\ call.auth.err = OK
    /\ call.auth.subject = <<"service">>

\* the call in flight took the signature path: auth enabled, no static token,
\* not the issuance method
SignaturePath ==
    /\ Decided
    /\ PresentedToken = << >>
    /\ call.fullMethod # IssueTemporaryCredentialsMethod

KnownKey == CallInput.AccessKeyID \in DOMAIN temps

Rec == temps[CallInput.AccessKeyID]

\* the signature presented is the lower-case hex HMAC of the call's canonical
\* string under the secret of the presented access key
CorrectSignature ==
    /\ KnownKey
    /\ CallInput.Signature = hmacSHA256Hex(Rec.secret, canonicalString(CallInput))

SkewDistance ==
    IF CallInput.Timestamp >= call.authAt
    THEN CallInput.Timestamp - call.authAt
    ELSE call.authAt - CallInput.Timestamp

Accepted ==
    /\ call.pc \in {"handler", "done"}
    /\ call.auth.err = OK
    /\ call.auth.method = MethodSignature

Rejected ==
    /\ call.pc = "rejected"
    /\ call.auth.err = Unauthenticated
    /\ call.code = Unauthenticated

\* C2: a credential issued at time T expires at T + TTL; a call verified at
\* T' <= T + TTL with its access key, a nonce, a timestamp within five
\* minutes of T' and the correct signature is accepted, and every call
\* verified at T' > T + TTL with that access key is rejected, whatever its
\* signature.
C2_ValidUntilExpiry ==
    /\ (call.pc = "done" /\ call.creds # << >>) =>
          LET c == call.creds[1]
          IN  /\ c.ExpiresAt = call.issuedAt + effectiveTTL(config.ttl)
              /\ c.AccessKeyID \in DOMAIN temps
              /\ temps[c.AccessKeyID].expiresAt = c.ExpiresAt
    /\ (SignaturePath /\ KnownKey) =>
          /\ (/\ call.authAt <= Rec.expiresAt
              /\ CorrectSignature
              /\ CallInput.Nonce # << >>
              /\ SkewDistance <= SkewMinutes) => Accepted
          /\ call.authAt > Rec.expiresAt => Rejected

\* a correctly signed call verified at the very minute of expiry is accepted
C2_Witness ==
    /\ SignaturePath
    /\ CorrectSignature
    /\ call.authAt = Rec.expiresAt
    /\ Accepted

\* a correctly signed call verified after expiry is rejected
C2_WitnessExpired ==
    /\ SignaturePath
    /\ CorrectSignature
    /\ CallInput.Nonce # << >>
    /\ SkewDistance <= SkewMinutes
    /\ call.authAt = Rec.expiresAt + 1
    /\ Rejected

\* C3: a call that is otherwise valid (known unexpired access key, nonce
\* present, correct signature) is rejected iff its timestamp is more than five
\* minutes from the time of verification, in the past or in the future; at
\* exactly five minutes it is accepted.
C3_SkewWindow ==
    (/\ SignaturePath
     /\ KnownKey
     /\ call.authAt <= Rec.expiresAt
     /\ CorrectSignature
     /\ CallInput.Nonce # << >>) =>
        /\ Rejected <=> SkewDistance > SkewMinutes
        /\ Accepted <=> SkewDistance <= SkewMinutes

\* accepted with a timestamp exactly five minutes in the future
C3_Witness ==
    /\ SignaturePath
    /\ CorrectSignature
    /\ CallInput.Timestamp = call.authAt + SkewMinutes
    /\ Accepted

\* accepted exactly five minutes in the past, rejected at six minutes either way
C3_WitnessPastEdge ==
    /\ SignaturePath /\ CorrectSignature
    /\ CallInput.Timestamp = call.authAt - SkewMinutes /\ Accepted

C3_WitnessPastOut ==
    /\ SignaturePath /\ CorrectSignature /\ call.authAt <= Rec.expiresAt
    /\ CallInput.Nonce # << >>
    /\ CallInput.Timestamp = call.authAt - SkewMinutes - 1 /\ Rejected

C3_WitnessFutureOut ==
    /\ SignaturePath /\ CorrectSignature /\ call.authAt <= Rec.expiresAt
    /\ CallInput.Nonce # << >>
    /\ CallInput.Timestamp = call.authAt + SkewMinutes + 1 /\ Rejected

\* the signature metadata of the call in flight would verify at the time the
\* call was decided
SignatureWouldVerify ==
    AuthenticateSignature(enabled, temps, CallInput, call.authAt).ok

\* C4: with auth enabled a call that carries a non-empty static token is
\* decided by the token alone: a configured token binds {its subject,
\* StaticToken} whatever signature metadata the call carries, any other token
\* rejects the call with Unauthenticated even when its signature would verify.
C4_StaticTokenDecides ==
    (Decided /\ PresentedToken # << >>) =>
        IF IsConfigured(PresentedToken)
        THEN /\ call.pc \in {"handler", "done"}
             /\ call.auth = [subject |-> ConfiguredSubject(PresentedToken),
                             method  |-> MethodServiceToken,
                             err     |-> OK]
             /\ call.ctx = [subject |-> ConfiguredSubject(PresentedToken),
                            method  |-> MethodServiceToken]
        ELSE /\ Rejected
             /\ call.ctx = EmptyCtx

\* a call with a refused static token and a signature that would verify was
\* rejected
C4_Witness ==
    /\ Decided
    /\ PresentedToken = BadToken
    /\ call.fullMethod = CreateChatCompletionMethod
    /\ SignatureWouldVerify
    /\ Rejected

\* a call with a configured token and signature metadata was bound to the
\* token's identity
C4_WitnessBoth ==
    /\ Decided
    /\ PresentedToken = TokA
    /\ CallInput.Signature # << >>
    /\ call.ctx.method = MethodServiceToken

\* C5: with auth enabled the credential store changes only in the issuance
\* handler of a call that presented a configured static token, by one new
\* record bound to that token's subject; a call to the issuance method without
\* a static token leaves the interceptor rejected with Unauthenticated, the
\* store untouched, whatever signature it carries.
C5_IssuanceNeedsStaticToken ==
    [][ /\ (temps' # temps) =>
              /\ call.pc = "handler"
              /\ call.fullMethod = IssueTemporaryCredentialsMethod
              /\ IsConfigured(PresentedToken)
              /\ call.auth.method = MethodServiceToken
              /\ \E k \in DOMAIN temps' :
                    /\ k \notin DOMAIN temps
                    /\ DOMAIN temps' = DOMAIN temps \cup {k}
                    /\ temps'[k].subject = ConfiguredSubject(PresentedToken)
                    /\ \A j \in DOMAIN temps : temps'[j] = temps[j]
        /\ (/\ enabled
            /\ call.pc = "received"
            /\ call'.pc # "received"
            /\ call.fullMethod = IssueTemporaryCredentialsMethod
            /\ PresentedToken = << >>) =>
              /\ call'.pc = "rejected"
              /\ call'.code = Unauthenticated
              /\ temps' = temps
      ]_vars

\* an issuance call without a static token, signed with a derived credential
\* whose signature verifies, was rejected
C5_Witness ==
    /\ Decided
    /\ call.fullMethod = IssueTemporaryCredentialsMethod
    /\ PresentedToken = << >>
    /\ SignatureWouldVerify
    /\ Rejected
    /\ Cardinality(DOMAIN temps) = 1

\* the hex HMAC of the call's canonical string under the record's secret
ExpectedSignature == hmacSHA256Hex(Rec.secret, canonicalString(CallInput))

\* the record a finished issuance stored is bound to the subject of the token
\* that was presented
IssuedForPresenter ==
    (enabled /\ call.pc = "done" /\ call.creds # << >>) =>
        /\ call.creds[1].AccessKeyID \in DOMAIN temps
        /\ temps[call.creds[1].AccessKeyID].subject = ConfiguredSubject(PresentedToken)

\* C6 as stated: on the signature path a call is accepted iff its access key
\* names a stored record, the record is unexpired, the timestamp is in the
\* window and the signature equals the hex HMAC; the identity is the record's
\* subject; every other call is rejected.
C6_AsStated ==
    SignaturePath =>
        /\ Accepted <=> (/\ KnownKey
                         /\ call.authAt <= Rec.expiresAt
                         /\ SkewDistance <= SkewMinutes
                         /\ CallInput.Signature = ExpectedSignature)
        /\ Accepted => call.ctx = [subject |-> Rec.subject, method |-> MethodSignature]
        /\ ~Accepted => Rejected

\* C6 (amended): on the signature path a call is accepted iff its access key
\* names a stored record, the record is unexpired, the nonce is non-empty, the
\* timestamp is in the window and the signature is the hex HMAC of the
\* canonical string written with hex digits of either case; the identity is
\* the record's subject, the subject of the token presented at issuance;
\* every other call is rejected with Unauthenticated.
C6_SignatureDecides ==
    /\ SignaturePath =>
          /\ Accepted <=> (/\ KnownKey
                           /\ call.authAt <= Rec.expiresAt
                           /\ CallInput.Nonce # << >>
                           /\ CallInput.Timestamp # 0
                           /\ SkewDistance <= SkewMinutes
                           /\ CallInput.Signature \in
                                  {ExpectedSignature, upperHex(ExpectedSignature)})
          /\ Accepted => call.ctx = [subject |-> Rec.subject, method |-> MethodSignature]
          /\ ~Accepted => Rejected
    /\ IssuedForPresenter

\* a call signed with a credential issued to the unnamed token was accepted as
\* "service"
C6_Witness ==
    /\ SignaturePath
    /\ Accepted
    /\ call.ctx.subject = <<"service">>
    /\ CallInput.Signature = ExpectedSignature

\* a call signed in upper-case hex was accepted; a correctly signed call
\* without a nonce was rejected
C6_WitnessUpper ==
    SignaturePath /\ Accepted /\ CallInput.Signature = upperHex(ExpectedSignature)

C6_WitnessNoNonce ==
    /\ SignaturePath /\ KnownKey /\ call.authAt <= Rec.expiresAt
    /\ SkewDistance <= SkewMinutes /\ CallInput.Signature = ExpectedSignature
    /\ CallInput.Nonce = << >> /\ Rejected

\* C7: with auth enabled the decision precedes the handler: a handler is
\* pending or has run only for a call authenticate() accepted, with the
\* decided subject and method in its context; a call authenticate() refused
\* is rejected, its handler has produced nothing, and it only returns.
C7_DecidedBeforeHandler ==
    /\ [](enabled =>
            /\ call.pc \in {"handler", "done"} =>
                  /\ call.auth.err = OK
                  /\ call.auth.subject # << >>
                  /\ call.auth.method \in {MethodServiceToken, MethodSignature}
                  /\ call.ctx = [subject |-> call.auth.subject, method |-> call.auth.method]
            /\ call.auth.err \notin {OK, ""} =>
                  /\ call.pc = "rejected"
                  /\ call.code = Unauthenticated
                  /\ call.creds = << >>
                  /\ ~call.notified
            /\ call.pc = "received" => call.auth = NoDecision /\ call.ctx = EmptyCtx)
    /\ [][ call.pc = "rejected" => (call'.pc \in {"rejected", "idle"} /\ temps' = temps) ]_vars

\* the handler of a streaming call ran with the identity of a derived credential
C7_Witness ==
    /\ enabled
    /\ call.fullMethod \in StreamMethods
    /\ call.pc = "done"
    /\ call.ctx.method = MethodSignature
    /\ call.ctx.subject # << >>

C7_WitnessRejectedUnary ==
    enabled /\ call.fullMethod \in UnaryMethods /\ call.pc = "rejected"

\* the body hash the gateway stamps on the request of the call in flight
StampedBodyHash ==
    IF \E k \in {mdAccessKeyID, mdSignature, mdTimestamp, mdNonce} :
           headerGet(call.http.Header, k) # << >>
    THEN sha256Hex(call.http.Body)
    ELSE sha256Hex(EmptyBody)

\* the HTTP context of the call's Signing Input is what the gateway set
ContextSetByGateway ==
    /\ call.via = "http"
    /\ CallInput.HTTPMethod = call.http.Method
    /\ CallInput.HTTPPath = call.http.Path
    /\ CallInput.HTTPQuery = call.http.RawQuery
    /\ CallInput.BodySHA256 = StampedBodyHash

\* the Signing Input of the call carries no HTTP context
NoHTTPContext ==
    /\ CallInput.HTTPMethod = << >>
    /\ CallInput.HTTPPath = << >>
    /\ CallInput.HTTPQuery = << >>
    /\ CallInput.BodySHA256 = << >>

\* C9: for every call whose signature is verified, the HTTP method, path, query
\* and body hash of the Signing Input were set by the gateway; values written
\* by the caller are ignored or overwritten.
C9_ContextSetByBridge ==
    (Decided /\ call.auth.method = MethodSignature) =>
        (ContextSetByGateway \/ NoHTTPContext)

\* what holds of the code: calls forwarded by the gateway carry the gateway's
\* values, whatever the HTTP caller wrote under the four keys
C9_ForwardedCallsStamped ==
    (call.via = "http" /\ call.pc \in {"received", "handler", "rejected", "done"}) =>
        ContextSetByGateway

\* no field of the Signing Input holds a line feed
NoLineFeed(in) ==
    \A f \in {"Nonce", "CallbackURL", "HTTPMethod", "HTTPPath", "HTTPQuery",
              "BodySHA256", "GRPCFullMethod"} :
        \A i \in DOMAIN in[f] : in[f][i] # LF

C8_ApartWithoutLineFeed ==
    (probe.kind = "verified"
        /\ NoLineFeed(probe.http) /\ NoLineFeed(probe.grpc)) =>
            ~(probe.okHTTP /\ probe.okRPC)

\* the signer's own input verified
C8_SignerVerified ==
    probe.kind = "verified" =>
        IF probe.signer = "http" THEN probe.okHTTP ELSE probe.okRPC

\* the Signing Input of the call with another callback URL
withCallback(c) == [CallInput EXCEPT !.CallbackURL = c]

\* C10: the callback URL is bound into the signature in both branches: the
\* signature of an accepted call does not verify for the same Signing Input
\* with any other callback URL, and a call that presents a signature computed
\* for another callback URL is rejected.
C10_CallbackBound ==
    /\ (SignaturePath /\ Accepted) =>
          \A c \in {<< >>, URL1, URL2} \ {CallInput.CallbackURL} :
              ~AuthenticateSignature(enabled, temps, withCallback(c), call.authAt).ok
    /\ (SignaturePath /\ KnownKey) =>
          \A c \in {<< >>, URL1, URL2} \ {CallInput.CallbackURL} :
              CallInput.Signature =
                  hmacSHA256Hex(Rec.secret, canonicalString(withCallback(c)))
                      => Rejected

\* a call through the gateway, signed by a live credential for another
\* callback URL than the one it declares, was rejected
C10_Witness ==
    /\ SignaturePath /\ KnownKey
    /\ call.via = "http"
    /\ canonicalBranch(CallInput) = "http"
    /\ call.authAt <= Rec.expiresAt
    /\ SkewDistance <= SkewMinutes
    /\ CallInput.Nonce # << >>
    /\ CallInput.Signature =
           hmacSHA256Hex(Rec.secret, canonicalString(otherCallback(CallInput)))
    /\ Rejected

\* the same on the gRPC branch, the call declaring no callback URL
C10_WitnessRPC ==
    /\ SignaturePath /\ KnownKey
    /\ canonicalBranch(CallInput) = "grpc"
    /\ CallInput.CallbackURL = << >>
    /\ call.authAt <= Rec.expiresAt
    /\ SkewDistance <= SkewMinutes
    /\ CallInput.Nonce # << >>
    /\ CallInput.Signature =
           hmacSHA256Hex(Rec.secret, canonicalString(otherCallback(CallInput)))
    /\ Rejected

\* accepted calls of both branches, with and without a callback URL
C10_WitnessAcceptedHTTP ==
    SignaturePath /\ Accepted /\ canonicalBranch(CallInput) = "http"
        /\ CallInput.CallbackURL # << >>

C10_WitnessAcceptedRPC ==
    SignaturePath /\ Accepted /\ canonicalBranch(CallInput) = "grpc"
        /\ CallInput.CallbackURL = << >>

\* a handler step of the call in flight
HandlerStep(fullMethod) ==
    call.pc = "handler" /\ call.fullMethod = fullMethod /\ call'.pc = "done"

\* the call in flight was authenticated by a static token
StaticIdentity ==
    /\ enabled
    /\ MethodFromContext(call.ctx) = MethodServiceToken
    /\ SubjectFromContext(call.ctx) # << >>

\* C11: a SetUsageCallback or GetUsageCallback call whose identity was
\* established by signature ends with PermissionDenied and returns no URLs,
\* whatever list it sent, and leaves the allowlist of every subject unchanged.
C11_SignatureIdentityRefused ==
    [][ \A fm \in {SetUsageCallbackMethod, GetUsageCallbackMethod} :
          (HandlerStep(fm) /\ MethodFromContext(call.ctx) = MethodSignature) =>
              /\ call'.code = "PermissionDenied"
              /\ call'.resp = << >>
              /\ usageCallbackAllowlist' = usageCallbackAllowlist
      ]_vars

\* a SetUsageCallback call with a valid list, signed by a derived credential,
\* was refused
C11_Witness ==
    /\ enabled
    /\ call.pc = "done"
    /\ call.fullMethod = SetUsageCallbackMethod
    /\ call.ctx.method = MethodSignature
    /\ call.urls = <<URL1>>
    /\ call.code = "PermissionDenied"

C11_WitnessGet ==
    /\ enabled
    /\ call.pc = "done"
    /\ call.fullMethod = GetUsageCallbackMethod
    /\ call.ctx.method = MethodSignature
    /\ call.code = "PermissionDenied"
    /\ DOMAIN usageCallbackAllowlist # {}

\* a list holds a malformed URL
HasMalformed(urls) == \E i \in DOMAIN urls : urls[i] \in MalformedURLs

\* C12: SetUsageCallback by a static-token subject with a list that holds a
\* malformed URL ends with InvalidArgument and changes nothing: no URL of the
\* list is inserted and the subject's set stays what it was.
C12_MalformedAllOrNothing ==
    [][ (HandlerStep(SetUsageCallbackMethod) /\ StaticIdentity /\ HasMalformed(call.urls)) =>
            /\ call'.code = "InvalidArgument"
            /\ call'.resp = << >>
            /\ usageCallbackAllowlist' = usageCallbackAllowlist
      ]_vars

\* a list with a valid URL before and after a malformed one was refused by a
\* subject that had an allowlist, which is still there
C12_Witness ==
    /\ call.pc = "done"
    /\ call.fullMethod = SetUsageCallbackMethod
    /\ StaticIdentity
    /\ call.urls = <<URL1, URLNoHost, URL2>>
    /\ call.code = "InvalidArgument"
    /\ call.prev = <<URLHttp, URL2>>
    /\ usageCallbackAllowlist[SubjectFromContext(call.ctx)] = {URLHttp, URL2}

\* each kind of malformed URL was refused
C12_WitnessKinds ==
    /\ call.pc = "done" /\ call.fullMethod = SetUsageCallbackMethod /\ StaticIdentity
    /\ call.code = "InvalidArgument"
    /\ call.urls \in {<<URLBadEscape>>, <<URLNoScheme>>, <<URL2, URLFtp>>}

\* the non-empty strings of a list
NonEmptyURLs(urls) == {urls[i] : i \in DOMAIN urls} \ {<< >>}

\* a list is strictly ascending in the order of strings
Ascending(list) ==
    \A i, j \in DOMAIN list : i < j => stringLess(list[i], list[j])

\* a list is exactly the elements of a set, ascending
ListsExactly(list, set) ==
    /\ {list[i] : i \in DOMAIN list} = set
    /\ Ascending(list)

\* C13: a successful SetUsageCallback(urls) by a static-token subject replaces
\* the subject's set by the distinct non-empty URLs of the list (removes the
\* entry when there are none) and touches no other subject; GetUsageCallback
\* returns exactly the subject's set in ascending order, empty when the
\* subject has no entry.
C13_SetThenGet ==
    /\ [][ (HandlerStep(SetUsageCallbackMethod) /\ call'.code = OK) =>
              LET subject == SubjectFromContext(call.ctx)
                  set     == NonEmptyURLs(call.urls)
              IN  /\ StaticIdentity
                  /\ IF set = {}
                     THEN subject \notin DOMAIN usageCallbackAllowlist'
                     ELSE /\ subject \in DOMAIN usageCallbackAllowlist'
                          /\ usageCallbackAllowlist'[subject] = set
                  /\ \A x \in (DOMAIN usageCallbackAllowlist
                                  \cup DOMAIN usageCallbackAllowlist') \ {subject} :
                        /\ x \in DOMAIN usageCallbackAllowlist
                        /\ x \in DOMAIN usageCallbackAllowlist'
                        /\ usageCallbackAllowlist'[x] = usageCallbackAllowlist[x]
                  /\ ListsExactly(call'.resp, set)
         ]_vars
    /\ []((call.pc = "done" /\ call.fullMethod = GetUsageCallbackMethod /\ call.code = OK) =>
             LET subject == SubjectFromContext(call.ctx)
             IN  /\ StaticIdentity
                 /\ ListsExactly(call.resp,
                                 IF subject \in DOMAIN usageCallbackAllowlist
                                 THEN usageCallbackAllowlist[subject] ELSE {}))

\* GetUsageCallback returned the two URLs of the unsorted list with a
\* duplicate and an empty string, in order
C13_Witness ==
    /\ call.pc = "done"
    /\ call.fullMethod = GetUsageCallbackMethod
    /\ call.code = OK
    /\ call.resp = <<URL1, URL2>>

\* a set was replaced by a disjoint one; "http:" sorts before "https:"
C13_WitnessReplaced ==
    /\ call.pc = "done" /\ call.fullMethod = SetUsageCallbackMethod /\ call.code = OK
    /\ call.prev = <<URL1>>
    /\ call.resp = <<URLHttp, URL2>>

\* an empty list removed the subject's entry; GetUsageCallback returns empty
C13_WitnessRemoved ==
    /\ call.pc = "done" /\ call.fullMethod = SetUsageCallbackMethod /\ call.code = OK
    /\ call.urls = << >>
    /\ call.prev # << >>
    /\ SubjectFromContext(call.ctx) \notin DOMAIN usageCallbackAllowlist

C13_WitnessGetEmpty ==
    /\ call.pc = "done" /\ call.fullMethod = GetUsageCallbackMethod /\ call.code = OK
    /\ call.resp = << >>
    /\ DOMAIN usageCallbackAllowlist # {}

\* the callback URL the call in flight declares
DeclaredURL == first(call.md[mdCallbackURL])

\* the declared URL is in the allowlist of the call's subject
DeclaredURLRegistered ==
    /\ SubjectFromContext(call.ctx) \in DOMAIN usageCallbackAllowlist
    /\ DeclaredURL \in usageCallbackAllowlist[SubjectFromContext(call.ctx)]

\* C14: a usage notification is dispatched only in the handler of a business
\* call whose operation succeeded, that declared a non-empty callback URL, has
\* a non-empty subject, and whose URL is in that subject's allowlist at that
\* moment; the notification is for that URL and subject; a business handler
\* dispatches nothing in every other case.
C14_NotifyOnlyWhenAllowed ==
    [][ /\ (deliveries' # deliveries /\ Len(deliveries') > Len(deliveries)) =>
              /\ \E fm \in BusinessMethods : HandlerStep(fm)
              /\ call'.app = "nil"
              /\ call'.code = OK
              /\ DeclaredURL # << >>
              /\ SubjectFromContext(call.ctx) # << >>
              /\ DeclaredURLRegistered
              /\ Len(deliveries') = Len(deliveries) + 1
              /\ deliveries'[Len(deliveries')].url = DeclaredURL
              /\ deliveries'[Len(deliveries')].subject = SubjectFromContext(call.ctx)
              /\ \A i \in DOMAIN deliveries : deliveries'[i] = deliveries[i]
        /\ (\E fm \in BusinessMethods : HandlerStep(fm)) =>
              (call'.notified <=> Len(deliveries') > Len(deliveries))
      ]_vars

\* a call signed by a derived credential declared a URL of its subject's
\* allowlist, succeeded, and its notification was dispatched
C14_Witness ==
    /\ call.pc = "done"
    /\ call.fullMethod \in BusinessMethods
    /\ call.ctx.method = MethodSignature
    /\ call.notified
    /\ Len(deliveries) = 1
    /\ deliveries[1].url = DeclaredURL

\* the operation succeeded and the declared URL is registered for another
\* subject only: nothing was dispatched
C14_WitnessOtherSubject ==
    /\ call.pc = "done"
    /\ call.fullMethod \in BusinessMethods
    /\ call.app = "nil"
    /\ StaticIdentity
    /\ DeclaredURL # << >>
    /\ ~DeclaredURLRegistered
    /\ \E x \in DOMAIN usageCallbackAllowlist : DeclaredURL \in usageCallbackAllowlist[x]
    /\ ~call.notified
    /\ deliveries = NoDeliveries

\* the operation failed for a registered URL: nothing was dispatched
C14_WitnessFailed ==
    /\ call.pc = "done"
    /\ call.fullMethod \in BusinessMethods
    /\ call.app # "nil"
    /\ DeclaredURL # << >>
    /\ DeclaredURLRegistered
    /\ deliveries = NoDeliveries

\* the status of some notification changes in the step
OutcomeStep ==
    /\ Len(deliveries') = Len(deliveries)
    /\ \E i \in DOMAIN deliveries : deliveries'[i].status # deliveries[i].status

\* C15: the response of a business call is the application's result alone,
\* whether its notification was dispatched or refused by the allowlist; the
\* handler returns while the notification is in flight and the response can be
\* delivered at once; a step in which a notification is delivered, fails or
\* times out leaves the call and its response untouched.
C15_ResponseIndependent ==
    /\ []((call.pc = "done" /\ call.fullMethod \in BusinessMethods) =>
              /\ call.code = toStatusErr(call.app)
              /\ ENABLED Return)
    /\ [][ (\E fm \in BusinessMethods : HandlerStep(fm)) /\ call'.notified =>
              deliveries'[Len(deliveries')].status = "inflight" ]_vars
    /\ [][ OutcomeStep => call' = call ]_vars

\* the handler has answered OK while the notification is still in flight
C15_Witness ==
    /\ call.pc = "done"
    /\ call.fullMethod \in BusinessMethods
    /\ call.code = OK
    /\ call.notified
    /\ deliveries[Len(deliveries)].status = "inflight"

\* the call answered OK although its declared URL was refused
C15_WitnessRefused ==
    /\ call.pc = "done"
    /\ call.fullMethod \in BusinessMethods
    /\ call.code = OK
    /\ DeclaredURL # << >>
    /\ ~call.notified

\* the notification failed or timed out under a call that had answered OK
C15_WitnessFailedLater ==
    /\ call.pc = "done"
    /\ call.fullMethod \in BusinessMethods
    /\ call.code = OK
    /\ call.notified
    /\ deliveries[Len(deliveries)].status \in {"failed", "timeout"}

\* the request context of the call in flight is cancelled in the step: the
\* caller cancels, or the call returns
ContextCancelled ==
    \/ call'.cancelled /\ ~call.cancelled
    \/ call'.pc = "idle" /\ call.pc # "idle"

Resolved(i) ==
    Len(deliveries) >= i /\ deliveries[i].status \in {"delivered", "failed", "timeout"}

\* C16: cancelling the inbound call, or its return, changes no dispatched
\* notification, none is ever cancelled, and every dispatched notification
\* ends delivered, failed or timed out.
C16_DispatchDetached ==
    /\ [][ ContextCancelled => deliveries' = deliveries ]_vars
    /\ [](\A i \in DOMAIN deliveries : deliveries[i].status # "cancelled")
    /\ \A i \in 1..MaxDispatched :
          (Len(deliveries) >= i /\ deliveries[i].status = "inflight") ~> Resolved(i)

\* the caller cancelled the call whose notification was in flight, and the
\* notification was delivered afterwards
C16_Witness ==
    /\ call.pc = "done"
    /\ call.cancelled
    /\ call.notified
    /\ deliveries[Len(deliveries)].status = "delivered"

\* the call was cancelled while its notification was in flight
C16_WitnessInflight ==
    /\ call.pc = "done"
    /\ call.cancelled
    /\ call.notified
    /\ deliveries[Len(deliveries)].status = "inflight"

\* no entry of the configuration carries a token
NoStaticToken == \A i \in DOMAIN config.tokens : config.tokens[i].Token = << >>

\* C19: with no static token configured auth is disabled: every call the
\* server receives reaches its handler with an empty subject and no method in
\* its context, whatever metadata it carries, and AuthenticateServiceToken and
\* AuthenticateSignature succeed with an empty subject on every input.
C19_DisabledPassesAll ==
    /\ enabled <=> ~NoStaticToken
    /\ ~enabled =>
          /\ call.pc # "rejected"
          /\ call.pc \in {"handler", "done"} =>
                /\ call.ctx = EmptyCtx
                /\ SubjectFromContext(call.ctx) = NoSubject
                /\ MethodFromContext(call.ctx) = MethodNone
                /\ call.auth = NoDecision
          /\ \A tok \in PresentableTokens \cup {<< >>} :
                AuthenticateServiceToken(enabled, serviceTokens, tok)
                    = [subject |-> NoSubject, ok |-> TRUE]
          /\ call.pc # "idle" =>
                AuthenticateSignature(enabled, temps, CallInput, now)
                    = [subject |-> NoSubject, ok |-> TRUE]

\* with an empty configuration a streaming call with an unknown token reached
\* its handler
C19_Witness ==
    /\ config.tokens = << >>
    /\ ~enabled
    /\ call.fullMethod \in StreamMethods
    /\ call.pc = "done"
    /\ PresentedToken = BadToken

\* a unary call with a signature that is no hex string reached its handler
C19_WitnessBadSignature ==
    /\ ~enabled
    /\ call.fullMethod = CreateChatCompletionMethod
    /\ call.pc = "handler"
    /\ PresentedToken = << >>
    /\ CallInput.Signature = NotHex

\* C20: with auth disabled a call to SetUsageCallback or GetUsageCallback is
\* not rejected for lacking the static-token method.
C20_DisabledBypassesMethodCheck ==
    (~enabled /\ call.pc = "done"
        /\ call.fullMethod \in {SetUsageCallbackMethod, GetUsageCallbackMethod}) =>
            call.code # "PermissionDenied"

\* what holds of the code: with auth disabled every call to either operation
\* ends with PermissionDenied and the allowlist stays empty
C20_DisabledRefusesBoth ==
    ~enabled =>
        /\ (call.pc = "done"
              /\ call.fullMethod \in {SetUsageCallbackMethod, GetUsageCallbackMethod}) =>
                  call.code = "PermissionDenied" /\ call.resp = << >>
        /\ usageCallbackAllowlist = EmptyMap

\* issuer w has returned credentials
Returned(w) == workers.proc[w].pc = "done" /\ workers.proc[w].err = OK

\* the record of the store that verifier w's key names, before any goroutine ran
OwnRecord(w) ==
    PreIssued(NewManager(config.tokens, config.ttl), MVerifiers)[KeyOf(w)]

\* C17: under every interleaving of the issuers and the verifiers, the store
\* holds for every issuer that has returned the record with the secret,
\* subject and expiry it returned, the records the store held at the start are
\* still there, and every verifier that has returned has the result
\* AuthenticateSignature gives alone on a store with its key's record.
C17_NoLostRecord ==
    workers # NoWorkers =>
        /\ \A w \in Issuers :
              Returned(w) =>
                  /\ workers.proc[w].akid \in DOMAIN temps
                  /\ temps[workers.proc[w].akid] =
                         [secret    |-> workers.proc[w].secret,
                          expiresAt |-> workers.proc[w].exp,
                          subject   |-> workers.proc[w].subject]
                  /\ workers.proc[w].subject = ConfiguredSubject(workers.proc[w].token)
        /\ \A w \in Verifiers :
              /\ KeyOf(w) \in DOMAIN temps
              /\ temps[KeyOf(w)] = OwnRecord(w)
              /\ workers.proc[w].pc = "done" =>
                    workers.proc[w].ok =
                        AuthenticateSignature(enabled, KeyOf(w) :> OwnRecord(w),
                                              workers.proc[w].in, now).ok

\* every goroutine has returned: the store holds every record, and verifiers
\* have accepted and refused
C17_Witness ==
    /\ workers # NoWorkers
    /\ \A w \in Issuers : Returned(w)
    /\ \A w \in Verifiers : workers.proc[w].pc = "done"
    /\ \E w \in Verifiers : workers.proc[w].ok
    /\ Cardinality(DOMAIN temps) = NIssuers + MVerifiers

\* an issuer holds the write lock while another goroutine waits for it
C17_WitnessContended ==
    /\ workers # NoWorkers
    /\ \E w \in Issuers : workers.proc[w].pc = "loaded"
    /\ \E w \in Issuers : workers.proc[w].pc = "ready"
    /\ \E w \in Verifiers : workers.proc[w].pc = "start"

IssuanceAnswered ==
    /\ call.fullMethod = IssueTemporaryCredentialsMethod
    /\ call.pc \in {"received", "handler"}
    /\ call'.pc \in {"rejected", "done"}

\* C21: IssueTemporaryCredentials with a missing or unknown static token
\* returns ErrUnauthenticated and the call is answered Unauthenticated; with
\* auth not configured it returns ErrForbidden and the call is answered
\* FailedPrecondition; in both cases the credential store holds the records
\* it held before.
C21_IssuanceErrors ==
    /\ [](\A tok \in PresentableTokens :
             LET r == IssueTemporaryCredentials(enabled, serviceTokens, tempTTL, temps,
                                                tok, now)
             IN  /\ ~enabled => (r.err = "Forbidden" /\ r.temps = temps /\ r.creds = << >>)
                 /\ (enabled /\ ~IsConfigured(tok)) =>
                        (r.err = Unauthenticated /\ r.temps = temps /\ r.creds = << >>)
                 /\ (enabled /\ IsConfigured(tok)) => r.err = OK)
    /\ [][ IssuanceAnswered =>
              /\ ~enabled => (call'.code = "FailedPrecondition" /\ temps' = temps)
              /\ (enabled /\ ~IsConfigured(PresentedToken)) =>
                     (call'.code = Unauthenticated /\ temps' = temps)
              /\ (enabled /\ IsConfigured(PresentedToken)) => call'.code = OK
              /\ call'.code # OK => (call'.creds = << >> /\ temps' = temps)
         ]_vars

\* an issuance with an unknown static token was answered Unauthenticated by a
\* server whose store holds a record
C21_Witness ==
    /\ enabled
    /\ call.fullMethod = IssueTemporaryCredentialsMethod
    /\ PresentedToken = BadToken
    /\ call.pc = "rejected"
    /\ call.code = Unauthenticated
    /\ Cardinality(DOMAIN temps) = 1

\* an issuance that presents a token to a server without auth configured was
\* answered FailedPrecondition
C21_WitnessNotConfigured ==
    /\ ~enabled
    /\ call.fullMethod = IssueTemporaryCredentialsMethod
    /\ PresentedToken = TokA
    /\ call.pc = "done"
    /\ call.code = "FailedPrecondition"
    /\ temps = EmptyMap

\* an issuance without a static token was answered Unauthenticated
C21_WitnessMissing ==
    /\ enabled
    /\ call.fullMethod = IssueTemporaryCredentialsMethod
    /\ PresentedToken = << >>
    /\ call.pc = "rejected"
    /\ call.code = Unauthenticated

\* a step in which an HTTP request arrives at the gateway
HTTPArrives == call.pc = "idle" /\ call'.via = "http"

\* the request of the call in flight carries a signing header
SigningAttempt == hasSig(call.http.Header)

\* C22: an HTTP request with an access-key-id, signature, timestamp or nonce
\* header and a body of more than 10 MiB is answered request-too-large by the
\* gateway and goes no further: no interceptor sees it.  With a body of 10 MiB
\* or less that is read to its end, and without any of those headers whatever
\* the length, a request for a routed path is forwarded.
C22_BodyCap ==
    /\ [][ HTTPArrives =>
              LET r      == call'.http
                  sig    == hasSig(r.Header)
                  routed == route(r.Method, r.Path) # << >>
              IN  /\ (sig /\ r.Body.len > maxBody) =>
                         (call'.pc = "refused" /\ call'.code = "RequestEntityTooLarge")
                  /\ (sig /\ r.Body.len <= maxBody /\ ~r.Body.readErr /\ routed) =>
                         call'.pc = "received"
                  /\ (~sig /\ ~r.Body.readErr /\ routed) => call'.pc = "received"
                  /\ ~sig => call'.code # "RequestEntityTooLarge"
         ]_vars
    /\ [](call.code = "RequestEntityTooLarge" =>
              (call.pc = "refused" /\ call.auth = NoDecision /\ call.md = EmptyMD))
    /\ [][ (call.pc = "refused" /\ call' # call) => call' = IdleCall ]_vars

\* a signed request with a body of 10 MiB and one byte was answered
\* request-too-large
C22_Witness ==
    /\ call.via = "http"
    /\ SigningAttempt
    /\ headerGet(call.http.Header, mdSignature) # << >>
    /\ call.http.Body.len = maxBody + 1
    /\ call.pc = "refused"
    /\ call.code = "RequestEntityTooLarge"

\* a signed request with a body of exactly 10 MiB reached its handler
C22_WitnessAtLimit ==
    /\ enabled
    /\ call.via = "http"
    /\ SigningAttempt
    /\ call.http.Body.len = maxBody
    /\ call.pc = "handler"

\* a request without signing headers and a body over 10 MiB was forwarded
C22_WitnessUncapped ==
    /\ call.via = "http"
    /\ ~SigningAttempt
    /\ call.http.Body.len > maxBody
    /\ call.pc = "received"

\* the call in flight was forwarded by the gateway
ForwardedByGateway ==
    call.via = "http" /\ call.pc \in {"received", "handler", "rejected", "done"}

C23_WitnessHashed ==
    /\ ForwardedByGateway
    /\ SigningAttempt
    /\ call.http.Body = LimitBody
    /\ first(call.md[mdBodySHA256]) = sha256Hex(LimitBody)
    /\ call.body = LimitBody
    /\ Accepted

\* URL1 written differently: a trailing slash, the default port, upper-case
\* host, upper-case scheme
URL1Slash  == URL1 \o <<"/">>
URL1Port   == <<"https", ":", "/", "/", "a.example:443", "/", "cb">>
URL1Host   == <<"https", ":", "/", "/", "A.EXAMPLE", "/", "cb">>
URL1Scheme == <<"HTTPS", ":", "/", "/", "a.example", "/", "cb">>

AskedURLs == {<< >>, URL1, URL2, URLHttp, URL1Slash, URL1Port, URL1Host, URL1Scheme}

AskedSubjects == {<< >>, <<"alice">>, <<"service">>, <<"bob">>}

\* a step in which SetUsageCallback registers the list of the call
Registers == HandlerStep(SetUsageCallbackMethod) /\ call'.code = OK

\* C24: IsUsageCallbackAllowed(subject, url) is false with auth disabled, for
\* the empty subject and for the empty URL; nothing is allowed at the start; a
\* successful registration makes allowed for its subject exactly the non-empty
\* strings of its list and leaves the other subjects as they were; no other
\* step changes what is allowed.  A string that differs from a registered URL
\* only in case, a trailing slash or the default port is a different string.
C24_AllowedExactly ==
    /\ \A sb \in AskedSubjects, u \in AskedURLs :
          ~IsUsageCallbackAllowed(enabled, usageCallbackAllowlist, sb, u)
    /\ [](\A sb \in AskedSubjects, u \in AskedURLs :
             /\ IsUsageCallbackAllowed(enabled, usageCallbackAllowlist, sb, u) =>
                    (enabled /\ sb # << >> /\ u # << >>)
             /\ ~IsUsageCallbackAllowed(FALSE, usageCallbackAllowlist, sb, u))
    /\ [][ \A sb \in AskedSubjects, u \in AskedURLs :
              IsUsageCallbackAllowed(enabled, usageCallbackAllowlist', sb, u) <=>
                  IF Registers /\ sb = SubjectFromContext(call.ctx)
                  THEN u # << >> /\ \E i \in DOMAIN call.urls : call.urls[i] = u
                  ELSE IsUsageCallbackAllowed(enabled, usageCallbackAllowlist, sb, u)
         ]_vars

\* URL1 was registered for alice: it is allowed for alice, its other spellings
\* and other subjects are not
C24_Witness ==
    /\ call.pc = "done"
    /\ call.fullMethod = SetUsageCallbackMethod
    /\ call.code = OK
    /\ SubjectFromContext(call.ctx) = <<"alice">>
    /\ IsUsageCallbackAllowed(enabled, usageCallbackAllowlist, <<"alice">>, URL1)
    /\ \A u \in {URL1Slash, URL1Port, URL1Host, URL1Scheme} :
          ~IsUsageCallbackAllowed(enabled, usageCallbackAllowlist, <<"alice">>, u)
    /\ ~IsUsageCallbackAllowed(enabled, usageCallbackAllowlist, <<"service">>, URL1)

\* a later registration took URL1 away from its subject
C24_WitnessReplaced ==
    /\ call.pc = "done"
    /\ call.fullMethod = SetUsageCallbackMethod
    /\ call.code = OK
    /\ \E i \in DOMAIN call.prev : call.prev[i] = URL1
    /\ ~IsUsageCallbackAllowed(enabled, usageCallbackAllowlist,
                               SubjectFromContext(call.ctx), URL1)
    /\ IsUsageCallbackAllowed(enabled, usageCallbackAllowlist,
                              SubjectFromContext(call.ctx), URLHttp)

\* a registration that failed left allowed what the last successful one set
C24_WitnessFailedKeeps ==
    /\ call.pc = "done"
    /\ call.fullMethod = SetUsageCallbackMethod
    /\ call.code = "InvalidArgument"
    /\ IsUsageCallbackAllowed(enabled, usageCallbackAllowlist,
                              SubjectFromContext(call.ctx), URL1)
    /\ ~IsUsageCallbackAllowed(enabled, usageCallbackAllowlist,
                               SubjectFromContext(call.ctx), URL2)

\* the call in flight is a stream
IsStream == call.fullMethod \in StreamMethods

\* C25: a streaming call is decided once, when it is opened, by the decision
\* a unary call with the same metadata and method name gets; while the stream
\* is open the decision and the context are not touched, and every read of
\* the stream's context by the handler finds the identity bound when it was
\* opened, also after the credential has expired and after allowlists changed.
C25_StreamIdentityFixed ==
    /\ [][ (IsStream /\ call.pc = "received" /\ call'.pc # "received") =>
              LET u == intercept(enabled, serviceTokens, temps, call.md,
                                 call.fullMethod, now)
              IN  /\ call'.auth = u.auth
                  /\ call'.ctx = u.ctx
                  /\ (call'.pc = "handler") = u.proceed
                  /\ (call'.pc = "rejected") = ~u.proceed
         ]_vars
    /\ [][ (IsStream /\ call.pc = "handler" /\ call'.pc \in {"handler", "done"}) =>
              /\ call'.auth = call.auth
              /\ call'.authAt = call.authAt
              /\ call'.ctx = call.ctx
         ]_vars
    /\ [](IsStream =>
             \A i \in DOMAIN call.seen :
                 /\ call.seen[i].subject = call.auth.subject
                 /\ call.seen[i].method = call.auth.method
                 /\ enabled => call.seen[i].subject # << >>)

\* a stream opened with a signature read its identity again after the
\* credential had expired and after an allowlist had changed
C25_Witness ==
    /\ IsStream
    /\ Accepted
    /\ KnownKey
    /\ Len(call.seen) = 2
    /\ call.seen[1].at <= Rec.expiresAt
    /\ call.seen[2].at > Rec.expiresAt
    /\ call.seen[2].allow # call.seen[1].allow
    /\ call.seen[2].subject = Rec.subject
    /\ call.seen[2].method = MethodSignature

\* a stream opened with a static token read its identity
C25_WitnessStaticToken ==
    /\ IsStream
    /\ call.auth.method = MethodServiceToken
    /\ Len(call.seen) = 1
    /\ call.seen[1].subject = <<"alice">>

\* a stream was refused when it was opened
C25_WitnessRefused ==
    enabled /\ IsStream /\ call.pc = "rejected" /\ call.seen = << >>

\* a provider operation has returned
ProviderCalled == probe.kind = "provider" /\ probe.op # ""

\* the fixed path of the operation
OperationPath ==
    IF probe.op = "chat.completions" THEN <<"/", "chat", "/", "completions">>
    ELSE <<"/", "embeddings">>

\* the request of the call is a POST with the bearer key and the model name
RequestCarries ==
    /\ probe.sent[1].Method = <<"POST">>
    /\ probe.sent[1].Authorization = <<"Bearer", " ">> \o probe.cfg.apiKey
    /\ jsonDecodeString(probe.sent[1].Body.model) = probe.model

\* C26 as stated: a provider without a key sends nothing, and the request of
\* every other call is a POST to the configured base URL followed by the path
\* of the operation.
C26_AsStated ==
    ProviderCalled =>
        /\ probe.cfg.apiKey = << >> => (probe.sent = << >> /\ probe.err # "nil")
        /\ probe.sent # << >> =>
               /\ RequestCarries
               /\ probe.sent[1].URL = probe.cfg.baseURL \o OperationPath

\* C26: a provider with an empty API key fails and sends nothing, and so does
\* one whose URL does not parse.  Every other call sends one request: a POST
\* to the configured base URL without its trailing slashes, followed by the
\* path of the operation, with "Authorization: Bearer <apiKey>" and a body
\* whose model field decodes to the model name given.
C26_ProviderRequest ==
    ProviderCalled =>
        IF probe.cfg.apiKey = << >>
              \/ urlParse(TrimRight(probe.cfg.baseURL) \o OperationPath).err
        THEN probe.sent = << >> /\ probe.err # "nil"
        ELSE /\ Len(probe.sent) = 1
             /\ RequestCarries
             /\ probe.sent[1].URL = TrimRight(probe.cfg.baseURL) \o OperationPath

\* a chat completion of a provider configured with a base URL that ends in a
\* slash was posted, with a model name that JSON escapes
C26_Witness ==
    /\ ProviderCalled
    /\ probe.op = "chat.completions"
    /\ probe.cfg.baseURL = <<"https", ":", "/", "/", "up.example", "/", "v1", "/">>
    /\ Len(probe.sent) = 1
    /\ probe.sent[1].URL = <<"https", ":", "/", "/", "up.example", "/", "v1",
                             "/", "chat", "/", "completions">>
    /\ probe.model = <<"a", "\"", "<", "\\", "b">>
    /\ probe.sent[1].Body.model # <<"\"">> \o probe.model \o <<"\"">>
    /\ probe.err = "nil"

\* an embeddings call of a provider without a key failed and sent nothing
C26_WitnessNoKey ==
    /\ ProviderCalled
    /\ probe.op = "embeddings"
    /\ probe.cfg.apiKey = << >>
    /\ probe.sent = << >>
    /\ probe.err = "error"

\* the credential of key k has expired
Expired(k) == now > temps[k].expiresAt

\* C27: no step changes or removes a record of the credential store, and time
\* does not go back; a credential whose expiry has passed is refused, with a
\* correct signature over a fresh timestamp too, and a call that presents it
\* is rejected, while its record stays in the store.
C27_ExpiryFixed ==
    /\ [][ /\ \A k \in DOMAIN temps : k \in DOMAIN temps' /\ temps'[k] = temps[k]
           /\ now' >= now ]_vars
    /\ [](\A k \in DOMAIN temps :
             Expired(k) =>
                 ~AuthenticateSignature(enabled, temps,
                                        signedInput(k, temps[k].secret, now), now).ok)
    /\ [](\A k \in DOMAIN temps :
             ~Expired(k) =>
                 AuthenticateSignature(enabled, temps,
                                       signedInput(k, temps[k].secret, now), now).ok)
    /\ []((SignaturePath /\ KnownKey /\ call.authAt > Rec.expiresAt) => Rejected)

\* a call signed with an expired credential was rejected after a later
\* issuance and a registration; the expired record is in the store beside the
\* live one
C27_Witness ==
    /\ SignaturePath
    /\ KnownKey
    /\ CorrectSignature
    /\ Rejected
    /\ Expired(CallInput.AccessKeyID)
    /\ Cardinality(DOMAIN temps) = 2
    /\ \E k \in DOMAIN temps : ~Expired(k) /\ temps[k].subject = Rec.subject
    /\ usageCallbackAllowlist # EmptyMap

\* a call signed with the live credential was accepted while the store holds
\* an expired one
C27_WitnessLive ==
    /\ Accepted
    /\ KnownKey
    /\ ~Expired(CallInput.AccessKeyID)
    /\ \E k \in DOMAIN temps : Expired(k)

\* the call in flight presents again the metadata of a call accepted earlier
Replayed ==
    /\ probe.kind = "captured"
    /\ call.md = probe.md
    /\ call.fullMethod = probe.fullMethod
    /\ call.pc \in {"handler", "rejected", "done"}
    /\ call.authAt > probe.acceptedAt

\* C28: the interceptor's step, whether it accepts or rejects by signature,
\* leaves the credential store and the allowlist as they are; metadata
\* accepted once is accepted at every later presentation whose time is within
\* five minutes of the timestamp and not after the expiry of the credential,
\* with the nonce it had the first time.
C28_VerificationRecordsNothing ==
    /\ [][ (call.pc = "received" /\ call'.pc \in {"handler", "rejected"}) =>
              /\ temps' = temps
              /\ usageCallbackAllowlist' = usageCallbackAllowlist
              /\ mu' = mu ]_vars
    /\ []((Replayed /\ SkewDistance <= SkewMinutes /\ call.authAt <= Rec.expiresAt) =>
              (Accepted /\ call.auth.subject = Rec.subject))
    /\ []((Replayed /\ (SkewDistance > SkewMinutes \/ call.authAt > Rec.expiresAt)) =>
              Rejected)

\* metadata accepted earlier was presented again later, with the same nonce,
\* and accepted again
C28_Witness ==
    /\ Replayed
    /\ Accepted
    /\ CallInput.Nonce = Nonce1
    /\ call.authAt >= probe.acceptedAt + 2

\* the same metadata presented after the expiry of the credential, and
\* presented more than five minutes from its timestamp, was rejected
C28_WitnessExpired ==
    Replayed /\ Rejected /\ call.authAt > Rec.expiresAt /\ SkewDistance <= SkewMinutes

C28_WitnessOutsideSkew ==
    Replayed /\ Rejected /\ SkewDistance > SkewMinutes

\* C29: the allowlist never maps a subject to the empty set, and a successful
\* registration of a list without a non-empty string leaves its subject
\* without an entry.
C29_NoEmptySet ==
    /\ [](\A sb \in DOMAIN usageCallbackAllowlist : usageCallbackAllowlist[sb] # {})
    /\ [][ (Registers /\ NonEmptyURLs(call.urls) = {}) =>
              SubjectFromContext(call.ctx) \notin DOMAIN usageCallbackAllowlist' ]_vars

\* a list of two empty strings removed the entry of a subject that had one,
\* and another subject kept its own
C29_Witness ==
    /\ call.pc = "done"
    /\ call.fullMethod = SetUsageCallbackMethod
    /\ call.code = OK
    /\ call.urls = << << >>, << >> >>
    /\ call.prev # << >>
    /\ call.resp = << >>
    /\ SubjectFromContext(call.ctx) \notin DOMAIN usageCallbackAllowlist
    /\ usageCallbackAllowlist # EmptyMap

\* the empty list removed the last entry of the allowlist
C29_WitnessLast ==
    /\ call.pc = "done"
    /\ call.fullMethod = SetUsageCallbackMethod
    /\ call.code = OK
    /\ call.urls = << >>
    /\ call.prev # << >>
    /\ usageCallbackAllowlist = EmptyMap

\* goroutine w holds the mutex, for writing or for reading
Holds(w) == mu.writer = w \/ w \in mu.readers

\* the positions of a goroutine between taking the mutex and releasing it: a
\* read or a write of one of the two maps
MapOperation == {"locked", "loaded", "stored", "written", "rlocked", "read", "looked"}

\* the positions in which a goroutine waits for the network or computes the
\* HMAC
OutsideWork == {"provider", "sending", "unlocked"}

\* the step with which goroutine w takes the read lock
TakesRLock(w) == VerifyRLock(w) \/ AllowedRLock(w) \/ ListRLock(w)

\* goroutine w is about to take the read lock
WantsRLock(w) ==
    \/ w \in Verifiers /\ workers.proc[w].pc = "start"
    \/ w \in Callers \cup Listers /\ workers.proc[w].pc = "asking"

\* C30: a goroutine holds the mutex only while it reads or writes one of the
\* maps: not while it waits for the provider or the callback target, not
\* while it computes the HMAC, not after it has returned, with or without an
\* error.  A reader is admitted whenever no writer holds the mutex, whatever
\* readers hold it, and as long as a goroutine has not returned some step can
\* be taken.
C30_LockOnlyAroundMap ==
    workers # NoWorkers =>
        /\ \A w \in DOMAIN workers.proc :
              /\ Holds(w) => workers.proc[w].pc \in MapOperation
              /\ workers.proc[w].pc \in OutsideWork \cup {"done"} => ~Holds(w)
              /\ (WantsRLock(w) /\ mu.writer = 0) => ENABLED TakesRLock(w)
        /\ (\E w \in DOMAIN workers.proc : workers.proc[w].pc # "done") =>
              ENABLED NextLocks
        /\ (\A w \in DOMAIN workers.proc : workers.proc[w].pc = "done") => mu = Unlocked

\* three readers hold the mutex at once, a writer waits, and the business call
\* is among the readers
C30_Witness ==
    /\ workers # NoWorkers
    /\ Cardinality(mu.readers) >= 3
    /\ mu.readers \cap Verifiers # {}
    /\ mu.readers \cap Callers # {}
    /\ mu.readers \cap Listers # {}
    /\ \E w \in Issuers \cap DOMAIN workers.proc : workers.proc[w].pc = "ready"

\* a notification is being sent while a writer holds the mutex
C30_WitnessSending ==
    /\ workers # NoWorkers
    /\ \E w \in Callers : workers.proc[w].pc = "sending"
    /\ mu.writer \in Registrars

\* the HMAC is being computed while a writer holds the mutex
C30_WitnessHMAC ==
    /\ workers # NoWorkers
    /\ \E w \in Verifiers : workers.proc[w].pc = "unlocked"
    /\ mu.writer \in Issuers

\* every goroutine has returned, the registration with an error
C30_WitnessAllReturned ==
    /\ workers # NoWorkers
    /\ DOMAIN workers.proc = LockWorkers
    /\ \A w \in DOMAIN workers.proc : workers.proc[w].pc = "done"
    /\ \E w \in Registrars : workers.proc[w].err = "Forbidden"
    /\ mu = Unlocked

\* a text is a decimal integer: digits, after an optional "-"
IsDecimal(s) ==
    LET digits == IF s # << >> /\ s[1] = "-" THEN Tail(s) ELSE s
    IN  digits # << >> /\ \A i \in DOMAIN digits : IsDigit(digits[i])

\* a decimal integer whose value is zero
IsZero(s) ==
    IsDecimal(s) /\ \A i \in DOMAIN s : s[i] \in {"-", "0"}

\* the metadata lacks a timestamp: the key is absent, or its text is zero or
\* no decimal integer
TimestampMissing(md) ==
    LET ts == first(md[mdTimestamp])
    IN  ts = << >> \/ ~IsDecimal(ts) \/ IsZero(ts)

\* the metadata lacks one of the four required fields
FieldMissing(md) ==
    \/ first(md[mdAccessKeyID]) = << >>
    \/ first(md[mdSignature]) = << >>
    \/ first(md[mdNonce]) = << >>
    \/ TimestampMissing(md)

\* the signature presented is the HMAC, under the secret of the stored record,
\* of the canonical string of the Signing Input
SignedForStore ==
    /\ probe.in.AccessKeyID \in DOMAIN temps
    /\ probe.in.Signature = hmacSHA256Hex(temps[probe.in.AccessKeyID].secret,
                                          canonicalString(probe.in))

\* C31: a Signing Input assembled from metadata that lacks the access-key id,
\* the signature, the nonce or the timestamp (absent, zero, or a text that is
\* no decimal integer and so parses to 0) is rejected, and rejected without
\* regard to the store: the answer is the same refusal for the empty store
\* and for a store that holds a record under the presented key.
C31_MissingFieldRejected ==
    (probe.kind \in {"assembled", "answered"} /\ FieldMissing(probe.md)) =>
        /\ TimestampMissing(probe.md) => probe.in.Timestamp = 0
        /\ \A tmps \in {EmptyMap, temps, StoreWith(probe.in.AccessKeyID, now)} :
              AuthenticateSignature(enabled, tmps, probe.in, now) = Fail
        /\ probe.kind = "answered" => probe.res = Fail

\* a call without a nonce is rejected although its key is stored, its
\* timestamp is the current time and its signature is the right one
C31_Witness ==
    /\ probe.kind = "answered"
    /\ first(probe.md[mdNonce]) = << >>
    /\ ~TimestampMissing(probe.md)
    /\ ~outsideSkew(probe.in.Timestamp, now)
    /\ SignedForStore
    /\ ~probe.res.ok

\* a timestamp that is no decimal integer parses to 0 and is rejected at a
\* time within the skew of 0, with the key stored and the signature right
C31_WitnessNoNumber ==
    /\ probe.kind = "answered"
    /\ ~IsDecimal(first(probe.md[mdTimestamp]))
    /\ first(probe.md[mdTimestamp]) # << >>
    /\ first(probe.md[mdNonce]) # << >>
    /\ ~outsideSkew(probe.in.Timestamp, now)
    /\ SignedForStore
    /\ ~probe.res.ok

\* the record stored under the empty key does not make an empty access-key id
\* acceptable
C31_WitnessEmptyKey ==
    /\ probe.kind = "answered"
    /\ probe.in.AccessKeyID = << >>
    /\ ~TimestampMissing(probe.md)
    /\ first(probe.md[mdNonce]) # << >>
    /\ SignedForStore
    /\ ~probe.res.ok

\* with every field present the same store accepts
C31_WitnessAccepted ==
    /\ probe.kind = "answered"
    /\ ~FieldMissing(probe.md)
    /\ probe.res.ok

\* the TTL in force: the configured one, or 15 minutes when that is not
\* positive
TTLInForce == IF config.ttl <= 0 THEN 15 ELSE config.ttl

\* the step is a call of IssueTemporaryCredentials
IssuanceStep == probe'.kind = "issuance" /\ probe' # probe

\* C32: a successful issuance adds exactly one record to the store, under the
\* access-key id it returns, a key the store did not hold; the record holds
\* the returned secret, the subject of the presented static token and the
\* returned expiry, which is the time of the issuance plus the TTL (15 minutes
\* for a configured TTL of zero or less); every other record stays as it was.
C32_IssuanceStoresWhatItReturns ==
    [][ (IssuanceStep /\ probe'.err = OK) =>
            LET c == probe'.creds[1]
            IN  /\ Len(probe'.creds) = 1
                /\ c.AccessKeyID \notin DOMAIN temps
                /\ DOMAIN temps' = DOMAIN temps \cup {c.AccessKeyID}
                /\ \A k \in DOMAIN temps : temps'[k] = temps[k]
                /\ temps'[c.AccessKeyID] = [secret    |-> c.AccessKeySecret,
                                            expiresAt |-> c.ExpiresAt,
                                            subject   |-> c.Subject]
                /\ c.Subject = ConfiguredSubject(probe'.token)
                /\ c.ExpiresAt = now + TTLInForce
                /\ c.AccessKeySecret # << >> ]_vars

\* a second credential was issued, under a configured TTL of zero or less, and
\* expires 15 minutes after its issuance, later than the first
C32_Witness ==
    /\ probe.kind = "issuance"
    /\ probe.err = OK
    /\ config.ttl <= 0
    /\ Cardinality(DOMAIN temps) = 2
    /\ probe.at > StartTime
    /\ temps[probe.creds[1].AccessKeyID].expiresAt = probe.at + 15

\* a credential was issued under the positive TTL to the token without a name
C32_WitnessConfigured ==
    /\ probe.kind = "issuance"
    /\ probe.err = OK
    /\ config.ttl = 2
    /\ probe.token = TokB
    /\ temps[probe.creds[1].AccessKeyID].subject = <<"service">>
    /\ temps[probe.creds[1].AccessKeyID].expiresAt = probe.at + 2

\* the fields, in order, with a line feed between neighbours
RECURSIVE JoinLines(_)
JoinLines(fields) ==
    IF Len(fields) = 0 THEN << >>
    ELSE IF Len(fields) = 1 THEN fields[1]
    ELSE fields[1] \o <<LF>> \o JoinLines(Tail(fields))

\* the resource of the HTTP branch
Resource(in) ==
    IF in.HTTPQuery = << >> THEN in.HTTPPath ELSE in.HTTPPath \o <<"?">> \o in.HTTPQuery

\* the specified canonical string of a Signing Input
SpecifiedCanonical(in) ==
    IF in.HTTPMethod # << >> /\ in.HTTPPath # << >>
    THEN JoinLines(<<FormatInt(in.Timestamp), in.Nonce, in.HTTPMethod, Resource(in),
                     in.BodySHA256, in.CallbackURL>>)
    ELSE JoinLines(<<FormatInt(in.Timestamp), in.Nonce, <<"GRPC">>, in.GRPCFullMethod,
                     in.CallbackURL>>)

\* the Signing Input with its HTTP fields replaced
WithHTTPFields(in, m, p, q, b) ==
    [in EXCEPT !.HTTPMethod = m, !.HTTPPath = p, !.HTTPQuery = q, !.BodySHA256 = b]

\* the Signing Inputs drawn, before and after the signature is attached
DrawnInputs ==
    {probe.http, probe.grpc,
     [probe.http EXCEPT !.Signature = probe.sig], [probe.grpc EXCEPT !.Signature = probe.sig]}

\* C33: the canonical string of a Signing Input is the specified one: six
\* fields joined by line feeds when HTTP method and path are both non-empty,
\* the resource being the path, followed by "?" and the query only when the
\* query is non-empty; five fields with the literal GRPC otherwise.  The
\* HTTP branch is the same string whatever the RPC method name, the RPC
\* branch the same string whatever the HTTP fields, and neither depends on
\* the signature, the time or the store.
C33_CanonicalShape ==
    probe.kind \in {"drawn", "signed", "verified"} =>
        \A in \in DrawnInputs :
            /\ canonicalString(in) = SpecifiedCanonical(in)
            /\ canonicalBranch(in) = "http" =>
                  \A fm \in UnaryMethods \cup {<< >>} :
                      canonicalString([in EXCEPT !.GRPCFullMethod = fm]) = canonicalString(in)
            /\ canonicalBranch(in) = "grpc" =>
                  \A m \in {<< >>, <<"POST">>} : \A p \in {<< >>, ChatPath} :
                  \A q \in {<< >>, <<"q">>} : \A b \in {<< >>, sha256Hex(Body1)} :
                      (m = << >> \/ p = << >>) =>
                          canonicalString(WithHTTPFields(in, m, p, q, b)) = canonicalString(in)

\* an HTTP input with a query and an RPC input that carries an HTTP method
\* have been signed and verified
C33_Witness ==
    /\ probe.kind = "verified"
    /\ probe.http.HTTPQuery # << >>
    /\ probe.http.CallbackURL # << >>
    /\ probe.grpc.HTTPMethod # << >>
    /\ canonicalBranch(probe.grpc) = "grpc"
    /\ Len(canonicalString(probe.http)) > Len(canonicalString(probe.grpc))

\* an HTTP input without query: the resource is the path alone
C33_WitnessNoQuery ==
    /\ probe.kind = "verified"
    /\ probe.http.HTTPQuery = << >>
    /\ Resource(probe.http) = probe.http.HTTPPath
    /\ probe.okHTTP

\* a routing call that named a model and carried a message or an input
Routed == probe.kind = "routing" /\ probe.op # "" /\ probe.model # << >> /\ probe.items > 0

\* the id has a non-empty prefix and a non-empty suffix around its first "/"
WellFormedID(id) ==
    LET parts == SplitN2(id)
    IN  Len(parts) = 2 /\ parts[1] # << >> /\ parts[2] # << >>

Prefix(id) == SplitN2(id)[1]
Suffix(id) == SplitN2(id)[2]

\* the upstream_model the catalog declares for the id, empty when it declares
\* none
DeclaredOverride(id) ==
    LET es == {i \in DOMAIN probe.catalog : probe.catalog[i].ID = id}
    IN  IF es = {} THEN << >>
        ELSE probe.catalog[CHOOSE i \in es : \A j \in es : j <= i].UpstreamModel

\* every entry of the catalog names, as its provider, the registered provider
\* that is the prefix of its id
SoundCatalog ==
    \A i \in DOMAIN probe.catalog :
        /\ WellFormedID(probe.catalog[i].ID)
        /\ probe.catalog[i].Provider = Prefix(probe.catalog[i].ID)
        /\ probe.catalog[i].Provider \in ProviderNames

\* the routing of the model id asked for, as the convention states it
RoutedByPrefix ==
    IF WellFormedID(probe.model) /\ Prefix(probe.model) \in ProviderNames
    THEN probe.called = <<[provider |-> Prefix(probe.model),
                           model    |-> IF DeclaredOverride(probe.model) # << >>
                                        THEN DeclaredOverride(probe.model)
                                        ELSE Suffix(probe.model)]>>
    ELSE probe.called = << >> /\ probe.code = "InvalidArgument"

\* C34 as stated: a model id provider/model goes to the provider its prefix
\* names, with the suffix, or the declared upstream_model, as the model name;
\* an id without a non-empty prefix and suffix, or with an unknown prefix, is
\* refused as an invalid argument and no provider is called.
C34_PrefixSelectsProvider == Routed => RoutedByPrefix

\* C34, for catalogs whose entries name the provider of their id's prefix:
\* the routing is the stated one.
C34_SoundCatalogRouting == (Routed /\ SoundCatalog) => RoutedByPrefix

\* the id dashscope/qwen-turbo is sent to openrouter, the provider its catalog
\* entry names
C34_WitnessCatalogProvider ==
    /\ Routed
    /\ probe.model = QwenID
    /\ probe.called # << >>
    /\ probe.called[1].provider = <<"openrouter">>

\* an id without "/" is accepted because the catalog declares it
C34_WitnessAlias ==
    /\ Routed
    /\ probe.model = <<"qwen">>
    /\ probe.called = <<[provider |-> <<"dashscope">>, model |-> <<"qwen-turbo">>]>>

\* an id with a registered prefix is refused with Internal: its catalog entry
\* names no registered provider
C34_WitnessInternal ==
    /\ Routed
    /\ probe.model = QwenID
    /\ probe.called = << >>
    /\ probe.code = "Internal"

\* the documented entry: the override is sent to the provider of the prefix
C34_WitnessOverride ==
    /\ Routed
    /\ SoundCatalog
    /\ probe.model = GPT4oID
    /\ DeclaredOverride(probe.model) # << >>
    /\ probe.called = <<[provider |-> <<"openrouter">>,
                         model |-> <<"openai", "/", "gpt-4o">>]>>

\* the operation the verified canonical string names is the method invoked:
\* the RPC method name itself, or the HTTP method and path the gateway routes
\* to it
NamesInvokedOperation ==
    IF canonicalBranch(CallInput) = "http"
    THEN route(CallInput.HTTPMethod, CallInput.HTTPPath) = call.fullMethod
    ELSE CallInput.GRPCFullMethod = call.fullMethod

\* C35 as stated: a call accepted by its signature invokes the operation the
\* signed canonical string names.
C35_SignatureNamesOperation == Accepted => NamesInvokedOperation

\* C35, for calls forwarded by the gateway and for native calls verified by
\* the RPC branch: the operation named is the operation invoked.
C35_BridgedCallsBound ==
    (Accepted /\ (call.via = "http" \/ canonicalBranch(CallInput) = "grpc")) =>
        NamesInvokedOperation

\* a native call of the streaming method is accepted by a signature over
\* POST /v1/chat/completions, the route of the unary method
C35_WitnessOtherOperation ==
    /\ Accepted
    /\ call.via = "grpc"
    /\ call.fullMethod = CreateChatCompletionStreamMethod
    /\ canonicalBranch(CallInput) = "http"
    /\ route(CallInput.HTTPMethod, CallInput.HTTPPath) = CreateChatCompletionMethod
    /\ CorrectSignature

\* a forwarded call is accepted by its signature
C35_WitnessBridged ==
    /\ Accepted
    /\ call.via = "http"
    /\ canonicalBranch(CallInput) = "http"
    /\ NamesInvokedOperation

\* the two Signing Inputs agree on every field but the pair (path, query)
DifferInResourceOnly ==
    /\ probe.kind = "presented"
    /\ <<probe.in1.HTTPPath, probe.in1.HTTPQuery>> # <<probe.in2.HTTPPath, probe.in2.HTTPQuery>>
    /\ [probe.in1 EXCEPT !.HTTPPath = << >>, !.HTTPQuery = << >>, !.Signature = << >>]
           = [probe.in2 EXCEPT !.HTTPPath = << >>, !.HTTPQuery = << >>, !.Signature = << >>]

HasQuestionMark(str) == \E i \in DOMAIN str : str[i] = "?"

\* C36 as stated: within the HTTP branch two Signing Inputs that differ only
\* in the pair (path, query) have different canonical strings, and the
\* signature of one is refused for the other.
C36_PathQueryApart ==
    DifferInResourceOnly =>
        /\ canonicalString(probe.in1) # canonicalString(probe.in2)
        /\ ~probe.ok

\* C36, for paths without "?": Signing Inputs that differ only in the pair
\* (path, query) have different canonical strings and the signature of one
\* is refused for the other.
C36_ApartWithoutQuestionMark ==
    (DifferInResourceOnly /\ ~HasQuestionMark(probe.in1.HTTPPath)
                          /\ ~HasQuestionMark(probe.in2.HTTPPath)) =>
        /\ canonicalString(probe.in1) # canonicalString(probe.in2)
        /\ ~probe.ok

\* the signature of GET /v1/models/x?y is accepted for GET /v1/models/x%3Fy,
\* the model whose id is "x?y"
C36_WitnessCollision ==
    /\ DifferInResourceOnly
    /\ probe.in1.HTTPPath = ModelsPrefix \o <<"x">>
    /\ probe.in1.HTTPQuery = <<"y">>
    /\ probe.in2.HTTPPath = ModelsPrefix \o <<"x", "?", "y">>
    /\ probe.in2.HTTPQuery = << >>
    /\ probe.fullMethod = GetModelMethod
    /\ probe.ok

\* the signature of one model's request is refused for another model's
C36_WitnessRefused ==
    /\ DifferInResourceOnly
    /\ probe.in1.HTTPPath = ModelsPrefix \o <<"x">>
    /\ probe.in2.HTTPPath = ModelsPrefix \o <<"z">>
    /\ probe.in1.HTTPQuery = probe.in2.HTTPQuery
    /\ ~probe.ok

\* the URL set the allowlist holds for a subject, if it holds one
EntryOf(allow, x) == IF x \in DOMAIN allow THEN <<allow[x]>> ELSE << >>

\* the subjects whose entry differs between two allowlists
ChangedSubjects(old, new) ==
    {x \in DOMAIN old \cup DOMAIN new : EntryOf(old, x) # EntryOf(new, x)}

\* C37: a SetUsageCallback step, whatever its outcome, changes the URL set of
\* no subject but the caller's and no record of the credential store, and a
\* refused one changes nothing; the steps that ask IsUsageCallbackAllowed or
\* UsageCallbackAllowlist (GetUsageCallback and the business handlers) change
\* neither the allowlist nor the store.
C37_AllowlistFrame ==
    /\ [](\A sb \in AskedSubjects \cup {<< >>} : \A urls \in URLLists :
             LET r == SetUsageCallbackAllowlist(enabled, usageCallbackAllowlist, sb, urls)
             IN  /\ ChangedSubjects(usageCallbackAllowlist, r.allowlist) \subseteq {sb}
                 /\ r.err # OK => r.allowlist = usageCallbackAllowlist)
    /\ [][ /\ HandlerStep(SetUsageCallbackMethod) =>
                 /\ temps' = temps
                 /\ ChangedSubjects(usageCallbackAllowlist, usageCallbackAllowlist')
                        \subseteq {SubjectFromContext(call.ctx)}
                 /\ call'.code # OK => usageCallbackAllowlist' = usageCallbackAllowlist
           /\ (\E fm \in BusinessMethods \cup {GetUsageCallbackMethod} : HandlerStep(fm)) =>
                 /\ temps' = temps
                 /\ usageCallbackAllowlist' = usageCallbackAllowlist ]_vars

\* a registration has cleared its subject's entry while another subject has
\* an entry and the store holds a credential
C37_Witness ==
    /\ call.pc = "done"
    /\ call.fullMethod = SetUsageCallbackMethod
    /\ call.code = OK
    /\ call.prev # << >>
    /\ SubjectFromContext(call.ctx) \notin DOMAIN usageCallbackAllowlist
    /\ DOMAIN usageCallbackAllowlist # {}
    /\ DOMAIN temps # {}

\* a refused registration beside another subject's entry
C37_WitnessRefused ==
    /\ call.pc = "done"
    /\ call.fullMethod = SetUsageCallbackMethod
    /\ call.code = "InvalidArgument"
    /\ \E x \in DOMAIN usageCallbackAllowlist : x # SubjectFromContext(call.ctx)
    /\ DOMAIN temps # {}

\* a business call has asked for a URL of another subject's entry
C37_WitnessAsked ==
    /\ call.pc = "done"
    /\ call.fullMethod \in BusinessMethods
    /\ call.app = "nil"
    /\ DeclaredURL # << >>
    /\ ~DeclaredURLRegistered
    /\ DOMAIN usageCallbackAllowlist # {}
    /\ DOMAIN temps # {}

-----------------------------------------------------------------------------
(* A credential and the allowlist of its issuer: the store holds one
   credential issued under TokA, the allowlist of that moment is remembered,
   and the holder of TokA replaces its list while the credential signs
   business calls *)

\* the lists the issuer may have registered before it asked for the credential
EarlierLists == {<< >>, <<URL1>>}

InitCurrent ==
    /\ \E cfg \in Configs : \E urls \in EarlierLists :
          LET m == NewManager(cfg.tokens, cfg.ttl)
              a == AuthenticateServiceToken(m.enabled, m.serviceTokens, TokA)
              r == SetUsageCallbackAllowlist(m.enabled, m.usageCallbackAllowlist,
                                             a.subject, urls)
          IN  /\ m.enabled
              /\ config = cfg
              /\ enabled = m.enabled
              /\ serviceTokens = m.serviceTokens
              /\ tempTTL = m.tempTTL
              /\ temps = IssuedOnce(cfg)
              /\ usageCallbackAllowlist = r.allowlist
              /\ probe = [kind |-> "issuedUnder", allowlist |-> r.allowlist]
    /\ now = StartTime
    /\ call = IdleCall
    /\ deliveries = NoDeliveries
    /\ mu = Unlocked
    /\ workers = NoWorkers

\* a caller registers a list or invokes a chat completion
CurrentCall ==
    /\ CanArrive
    /\ \E fm \in {SetUsageCallbackMethod, CreateChatCompletionMethod} :
       \E md \in CallbackMetadata(fm, now, temps) :
       \E urls \in IF fm = SetUsageCallbackMethod THEN URLLists ELSE {<< >>} :
          /\ fm \in BusinessMethods => Len(deliveries) < MaxDispatched
          /\ call' = [IdleCall EXCEPT !.pc = "received", !.via = "grpc",
                                      !.fullMethod = fm, !.md = md, !.urls = urls]
    /\ UNCHANGED <<mgrVars, now, probe, deliveries, mu, workers>>

NextCurrent ==
    \/ Tick
    \/ CurrentCall
    \/ UnaryServerInterceptor
    \/ SetUsageCallbackHandler
    \/ CreateChatCompletionHandler
    \/ SendReturns
    \/ Return

SpecCurrent == InitCurrent /\ [][NextCurrent]_vars

\* the URLs an allowlist holds for a subject
URLsOf(allow, x) == IF x \in DOMAIN allow THEN allow[x] ELSE {}

\* the call in flight was authenticated by the signature of a credential
SignedByCredential == MethodFromContext(call.ctx) = MethodSignature

\* the subject of the static token the call's credential was issued under
IssuerSubject == ConfiguredSubject(TokA)

\* C38: a business call authenticated by a derived credential runs under the
\* subject of the static token that issued the credential, and it is notified
\* exactly when it succeeded and declared a URL that the allowlist holds for
\* that subject at the moment of the handler step, whatever the allowlist held
\* when the credential was issued.
C38_CurrentAllowlist ==
    [][ (HandlerStep(CreateChatCompletionMethod) /\ SignedByCredential) =>
            /\ Rec.subject = IssuerSubject
            /\ SubjectFromContext(call.ctx) = IssuerSubject
            /\ call'.notified <=>
                   /\ call'.app = "nil"
                   /\ DeclaredURL # << >>
                   /\ DeclaredURL \in URLsOf(usageCallbackAllowlist, IssuerSubject) ]_vars

\* a signed call has been notified at a URL its issuer registered after the
\* credential was issued
C38_Witness ==
    /\ call.pc = "done"
    /\ call.fullMethod = CreateChatCompletionMethod
    /\ SignedByCredential
    /\ call.notified
    /\ DeclaredURL \notin URLsOf(probe.allowlist, IssuerSubject)

\* a signed call that succeeded under a credential not yet expired has not
\* been notified at a URL that was registered at issuance and replaced since
C38_WitnessRemoved ==
    /\ call.pc = "done"
    /\ call.fullMethod = CreateChatCompletionMethod
    /\ SignedByCredential
    /\ call.app = "nil"
    /\ ~call.notified
    /\ now < Rec.expiresAt
    /\ DeclaredURL \in URLsOf(probe.allowlist, IssuerSubject)
    /\ IssuerSubject \in DOMAIN usageCallbackAllowlist

\* the same after the issuer cleared its whole entry
C38_WitnessCleared ==
    /\ call.pc = "done"
    /\ call.fullMethod = CreateChatCompletionMethod
    /\ SignedByCredential
    /\ call.app = "nil"
    /\ ~call.notified
    /\ now < Rec.expiresAt
    /\ DeclaredURL \in URLsOf(probe.allowlist, IssuerSubject)
    /\ IssuerSubject \notin DOMAIN usageCallbackAllowlist

-----------------------------------------------------------------------------
(* Subjects of records and of calls *)

\* the call in flight has passed the interceptor
ReachedHandler == call.pc \notin {"idle", "received", "rejected", "refused"}

\* C39: every record of the credential store has a non-empty subject; with
\* auth enabled every successful static-token lookup yields a non-empty
\* subject and every call that has reached a handler carries a non-empty
\* subject and the method service_token or signature; a call in a handler
\* with an empty subject is a call of a gateway whose auth is disabled.
C39_SubjectsNeverEmpty ==
    /\ \A k \in DOMAIN temps : temps[k].subject # << >>
    /\ enabled =>
          \A tok \in PresentableTokens :
             LET a == AuthenticateServiceToken(enabled, serviceTokens, tok)
             IN  a.ok => a.subject # << >>
    /\ (enabled /\ ReachedHandler) =>
          /\ SubjectFromContext(call.ctx) # << >>
          /\ MethodFromContext(call.ctx) \in {MethodServiceToken, MethodSignature}
    /\ (ReachedHandler /\ SubjectFromContext(call.ctx) = << >>) => ~enabled

\* a call signed by a credential that was issued under the unnamed token is
\* in its handler as "service"
C39_Witness ==
    /\ enabled
    /\ call.pc = "handler"
    /\ MethodFromContext(call.ctx) = MethodSignature
    /\ SubjectFromContext(call.ctx) = DefaultSubject
    /\ Rec.subject = DefaultSubject

\* a call that presented the unnamed token is in its handler as "service"
C39_WitnessStatic ==
    /\ enabled
    /\ call.pc = "handler"
    /\ first(call.md[mdServiceToken]) = TokB
    /\ MethodFromContext(call.ctx) = MethodServiceToken
    /\ SubjectFromContext(call.ctx) = DefaultSubject

\* with auth disabled a call is in its handler without a subject
C39_WitnessDisabled ==
    /\ ~enabled
    /\ call.pc = "handler"
    /\ SubjectFromContext(call.ctx) = << >>
    /\ MethodFromContext(call.ctx) = MethodNone

-----------------------------------------------------------------------------
(* The mode of the gateway *)

\* the non-empty token strings of the configuration
ConfiguredTokens == {config.tokens[i].Token : i \in DOMAIN config.tokens} \ {<< >>}

\* C40: auth is enabled exactly when some configured entry has a non-empty
\* token; the accepted static tokens are the non-empty configured tokens, so
\* the entries with an empty token count for nothing and a configuration of
\* such entries alone leaves every call through; no step changes the mode or
\* the accepted tokens.
C40_EnabledIffToken ==
    /\ [](/\ enabled <=> ConfiguredTokens # {}
          /\ DOMAIN serviceTokens = ConfiguredTokens
          /\ enabled =>
                \A tok \in PresentableTokens :
                   AuthenticateServiceToken(enabled, serviceTokens, tok).ok
                       <=> tok \in ConfiguredTokens
          /\ ~enabled => call.pc # "rejected")
    /\ [][ /\ enabled' = enabled
           /\ serviceTokens' = serviceTokens
           /\ config' = config ]_vars

\* a gateway configured with empty-token entries only has let a call without
\* credentials through to its handler
C40_Witness ==
    /\ config.tokens # << >>
    /\ ConfiguredTokens = {}
    /\ ~enabled
    /\ call.pc = "handler"
    /\ first(call.md[mdServiceToken]) = << >>
    /\ first(call.md[mdSignature]) = << >>

\* an enabled gateway whose configuration also holds an empty-token entry,
\* after an issuance and some time
C40_WitnessEnabled ==
    /\ enabled
    /\ \E i \in DOMAIN config.tokens : config.tokens[i].Token = << >>
    /\ DOMAIN temps # {}
    /\ now > StartTime
    /\ call.pc = "rejected"

====
